---- MODULE Spec2Model ----
(***************************************************************************)
(* A model of mcp-recorder: the cassette data model (_types.py), the       *)
(* matcher family (matcher.py), the replay server (replayer.py) and the    *)
(* recording proxy (proxy.py).                                             *)
(*                                                                         *)
(* Encoding of Python / JSON values.                                       *)
(*   - a JSON object (Python dict) is a TLA+ function over its keys;       *)
(*   - a value that is not an object carries the key "json_kind": Python   *)
(*     None / JSON null at an object position is None, a JSON array is     *)
(*     JArray, a JSON number is JNumber;                                   *)
(*   - scalar fields (id, method, name, ...) are strings, and a null       *)
(*     scalar is JNull;                                                    *)
(*   - an object reference to a CassetteInteraction held by a matcher is   *)
(*     the position of the interaction in the list the matcher was built   *)
(*     over; 0 is "no interaction" (the None returned by match).           *)
(***************************************************************************)
EXTENDS Integers, Sequences, FiniteSets, TLC

VARIABLES
    interactions,   \* Cassette.interactions
    metadata,       \* Cassette.metadata (protocol_version, server_info)
    matcher,        \* the Matcher object handed to create_replay_app
    session_id,     \* create_replay_app.session_id
    last,           \* the replay request handled last and the response sent
    calls,          \* history of matcher.match calls: body and returned position
    ex,             \* the proxy's in-flight exchanges, one record per task
    clock,          \* logical time of the recording proxy's event loop
    added,          \* exchanges that called cassette.add_interaction, in call order
    handlers,       \* the replay server's request handlers, in order of arrival
    twin,           \* a second cassette and matcher, fed the same calls
    version,        \* Cassette.version
    file,           \* the cassette file on disk
    loaded,         \* what load_cassette returned or raised
    forwarded,      \* a header mapping and what _forward_headers made of it
    verify,         \* verify_cassette: the interactions sent and their results
    compared,       \* values handed to _strip_volatile and _deep_diff
    scrubbed,       \* what scrub_cassette returned, and the flags it was given
    server          \* the server a recording runs on, and the thread that saves

\* the state of the commands that run without a server, and of the server
\* of a recording
tools == <<version, file, loaded, forwarded, verify, compared, scrubbed, server>>

vars == <<interactions, metadata, matcher, session_id, last, calls, ex, clock, added,
          handlers, twin, tools>>

(***************************************************************************)
(* Bounds                                                                  *)
(***************************************************************************)
MaxInter == 2       \* longest cassette a matcher is built over
MaxCalls == 3       \* most matcher.match calls in one replay run
MaxAdds == 3        \* most add_interaction calls in one cassette run
MaxLines == 2       \* most lines the upstream SSE stream of a lone exchange carries
NumExchanges == 2   \* concurrent proxy exchanges
MaxSharedLines == 1 \* most lines the streams of concurrent exchanges carry together
NumHandlers == 2    \* replay requests in flight at the same time
MaxMetaCalls == 3   \* most match calls in a run over two cassettes

(***************************************************************************)
(* JSON / Python values                                                    *)
(***************************************************************************)
None == [json_kind |-> "null"]
JArray == [json_kind |-> "array"]
JNumber == [json_kind |-> "number"]
JNull == "null"
EmptyDict == [k \in {} |-> 0]

isinstance_dict(v) == "json_kind" \notin DOMAIN v

\* dict.get(key) / dict.get(key, default) for a key holding an object
dict_get(d, key, default) == IF key \in DOMAIN d THEN d[key] ELSE default

\* truthiness of a dict-or-None value: None and {} are falsy
truthy(v) == v # None /\ v # EmptyDict

(***************************************************************************)
(* _types.py                                                               *)
(***************************************************************************)
\* "1.0", as the sequence of its characters
CASSETTE_FORMAT_VERSION == <<"1", ".", "0">>

JSONRPC_REQUEST == "jsonrpc_request"
NOTIFICATION == "notification"
LIFECYCLE == "lifecycle"

InteractionType == {JSONRPC_REQUEST, NOTIFICATION, LIFECYCLE}

\* latency_ms is wall-clock time and is left out
CassetteInteraction(type, request, response, response_is_sse, response_status) ==
    [type |-> type, request |-> request, response |-> response,
     response_is_sse |-> response_is_sse, response_status |-> response_status,
     http_method |-> JNull, http_path |-> JNull]

\* a lifecycle interaction: request and response keep their default None
LifecycleInteraction(http_method, http_path, response_is_sse, response_status) ==
    [type |-> LIFECYCLE, request |-> None, response |-> None,
     response_is_sse |-> response_is_sse, response_status |-> response_status,
     http_method |-> http_method, http_path |-> http_path]

\* CassetteInteraction.jsonrpc_method: request.get("method"), JNull without one
jsonrpc_method(i) ==
    IF isinstance_dict(i.request) /\ "method" \in DOMAIN i.request
    THEN i.request.method ELSE JNull

CassetteMetadata == [protocol_version |-> JNull, server_info |-> None]

\* self.interactions.insert(0, interaction) in place of append
list_insert_front(ints, interaction) == <<interaction>> \o ints

\* self.interactions[-1:] = [interaction] in place of append
list_overwrite_last(ints, interaction) ==
    IF ints = <<>> THEN <<interaction>>
    ELSE [ints EXCEPT ![Len(ints)] = interaction]

\* self.interactions = [interaction] in place of append
list_restart(ints, interaction) == <<interaction>>

\* list.append
list_append(ints, interaction) == Append(ints, interaction)

\* Cassette.add_interaction: the cassette afterwards.  result.get on a
\* result that is not an object raises after the append; the metadata
\* then stays as it was.
add_interaction(ints, meta, interaction) ==
    LET appended == list_append(ints, interaction)
    IN  IF jsonrpc_method(interaction) = "initialize" /\ interaction.response # None
        THEN LET result == dict_get(interaction.response, "result", EmptyDict)
             IN  IF isinstance_dict(result)
                 THEN [interactions |-> appended,
                       metadata |-> [protocol_version |->
                                         dict_get(result, "protocolVersion", JNull),
                                     server_info |->
                                         dict_get(result, "serverInfo", None)],
                       raised |-> FALSE]
                 ELSE [interactions |-> appended, metadata |-> meta, raised |-> TRUE]
        ELSE [interactions |-> appended, metadata |-> meta, raised |-> FALSE]

(***************************************************************************)
(* matcher.py                                                              *)
(***************************************************************************)
\* dict(params): the params keep their _meta
normalize_params_keep(params) == params

\* normalize_params: drop the top-level _meta key (called on dicts only)
normalize_params(params) ==
    IF params = None THEN None
    ELSE [k \in DOMAIN params \ {"_meta"} |-> params[k]]

\* stable_hash: sha256 of the canonical (sorted-key) JSON text, taken as
\* collision-free: equal hashes exactly for equal JSON values.
stable_hash(obj) == <<"sha256", obj>>

\* a key that takes in the id of the request as well
match_key_with_id(request) ==
    <<dict_get(request, "method", ""), dict_get(request, "id", JNull),
      stable_hash(dict_get(request, "params", None))>>

match_key_for(request) ==
    LET method == dict_get(request, "method", "")
        params == dict_get(request, "params", None)
        normalized == IF isinstance_dict(params) THEN normalize_params(params)
                      ELSE params
    IN  <<method, stable_hash(normalized)>>

\* the strict key taken over normalized params
strict_key_normalized(request) ==
    LET method == dict_get(request, "method", "")
        params == dict_get(request, "params", None)
    IN  <<method, stable_hash(IF isinstance_dict(params)
                              THEN [k \in DOMAIN params \ {"_meta"} |-> params[k]]
                              ELSE params)>>

\* a strict key that is the method alone
strict_key_method(request) == <<dict_get(request, "method", "")>>

\* the key StrictMatcher computes, in __init__ and in match alike
strict_key_for(request) ==
    LET method == dict_get(request, "method", "")
        params == dict_get(request, "params", None)
    IN  <<method, stable_hash(params)>>

\* len(interactions): every interaction counted, whatever its type
count_interactions(ints, n) == n

RECURSIVE count_requests(_, _)
count_requests(ints, n) ==
    IF n = 0 THEN 0
    ELSE count_requests(ints, n - 1)
         + (IF ints[n].type = JSONRPC_REQUEST THEN 1 ELSE 0)

\* Matcher.__init__
Matcher_init(strategy, ints) ==
    [strategy |-> strategy,
     index |-> EmptyDict,
     queue |-> <<>>,
     total |-> count_requests(ints, Len(ints)),
     matched_count |-> 0,
     unmatched_requests |-> <<>>]

\* self._index.setdefault(key, deque([interaction])): a bucket keeps its
\* first interaction only
index_first_only(index, key, p) ==
    [k \in DOMAIN index \cup {key} |->
        IF k \in DOMAIN index THEN index[k] ELSE <<p>>]

\* self._index.setdefault(key, deque()).append(interaction)
index_append(index, key, p) ==
    [k \in DOMAIN index \cup {key} |->
        IF k = key
        THEN (IF key \in DOMAIN index THEN Append(index[key], p) ELSE <<p>>)
        ELSE index[k]]

\* the indexing loop of MethodParamsMatcher.__init__ / StrictMatcher.__init__
\* over the first n interactions
RECURSIVE build_index(_, _, _)
build_index(ints, n, strict) ==
    IF n = 0 THEN EmptyDict
    ELSE LET index == build_index(ints, n - 1, strict)
             interaction == ints[n]
         IN  IF interaction.type # JSONRPC_REQUEST THEN index
             ELSE IF interaction.request = None THEN index
             ELSE index_append(index,
                               IF strict THEN strict_key_for(interaction.request)
                               ELSE match_key_for(interaction.request),
                               n)

MethodParamsMatcher(ints) ==
    [Matcher_init("method_params", ints) EXCEPT
        !.index = build_index(ints, Len(ints), FALSE)]

StrictMatcher(ints) ==
    [Matcher_init("strict", ints) EXCEPT
        !.index = build_index(ints, Len(ints), TRUE)]

\* deque(interactions), the type filter forgotten
build_queue_unfiltered(ints, n) == [p \in 1..n |-> p]

\* deque(i for i in interactions if i.type == JSONRPC_REQUEST), first n
RECURSIVE build_queue(_, _)
build_queue(ints, n) ==
    IF n = 0 THEN <<>>
    ELSE IF ints[n].type = JSONRPC_REQUEST
         THEN Append(build_queue(ints, n - 1), n)
         ELSE build_queue(ints, n - 1)

SequentialMatcher(ints) ==
    [Matcher_init("sequential", ints) EXCEPT
        !.queue = build_queue(ints, Len(ints))]

Strategies == {"method_params", "sequential", "strict"}

create_matcher(strategy, ints) ==
    CASE strategy = "method_params" -> MethodParamsMatcher(ints)
      [] strategy = "sequential" -> SequentialMatcher(ints)
      [] strategy = "strict" -> StrictMatcher(ints)

all_consumed(m) == m.matched_count >= m.total

\* _record_match that leaves the counter alone
_record_match_forgotten(m) == m

\* a match counted twice
_record_match_twice(m) == [m EXCEPT !.matched_count = @ + 2]

_record_match(m) == [m EXCEPT !.matched_count = @ + 1]

\* _record_miss that logs nothing
_record_miss_silent(m, request_body) == m

\* insert(0, request_body) in place of append
_record_miss_front(m, request_body) ==
    [m EXCEPT !.unmatched_requests = <<request_body>> \o @]

_record_miss(m, request_body) ==
    [m EXCEPT !.unmatched_requests = Append(@, request_body)]

\* bucket[0] in place of popleft(): the head is handed out and stays
peek_left(q) == [item |-> Head(q), rest |-> q]

\* deque.pop() in place of popleft(): consumes from the right end
pop_right(q) == [item |-> q[Len(q)], rest |-> SubSeq(q, 1, Len(q) - 1)]

\* deque.popleft(): the item handed out and the deque left behind
popleft(q) == [item |-> Head(q), rest |-> Tail(q)]

\* the shared body of MethodParamsMatcher.match and StrictMatcher.match
bucket_match(m, key, request_body) ==
    LET bucket == IF key \in DOMAIN m.index THEN m.index[key] ELSE <<>>
    IN  IF bucket # <<>>
        THEN [matcher |-> _record_match([m EXCEPT !.index[key] = popleft(bucket).rest]),
              ret |-> popleft(bucket).item]
        ELSE [matcher |-> _record_miss(m, request_body), ret |-> 0]

MethodParamsMatcher_match(m, request_body) ==
    bucket_match(m, match_key_for(request_body), request_body)

StrictMatcher_match(m, request_body) ==
    bucket_match(m, strict_key_for(request_body), request_body)

SequentialMatcher_match(m, request_body) ==
    IF m.queue # <<>>
    THEN [matcher |-> [_record_match(m) EXCEPT !.queue = popleft(m.queue).rest],
          ret |-> popleft(m.queue).item]
    ELSE [matcher |-> _record_miss(m, request_body), ret |-> 0]

\* matcher.match(body), dispatched on the class of the matcher
match(m, request_body) ==
    CASE m.strategy = "method_params" -> MethodParamsMatcher_match(m, request_body)
      [] m.strategy = "sequential" -> SequentialMatcher_match(m, request_body)
      [] m.strategy = "strict" -> StrictMatcher_match(m, request_body)

(***************************************************************************)
(* replayer.py                                                             *)
(*                                                                         *)
(* Byte strings are kept by what they encode: json_dumps(v) is the JSON    *)
(* text of v, EmptyBytes is b"", Garbage is bytes that are not JSON, and   *)
(* an SSE body is its list of events.                                      *)
(***************************************************************************)
EmptyBytes == [bytes |-> "empty"]
Garbage == [bytes |-> "garbage"]
json_dumps(v) == [bytes |-> "json", value |-> v]

\* _parse_json that reads bytes it cannot decode as an empty object
_parse_json_lenient(raw) ==
    IF raw = EmptyBytes THEN None
    ELSE IF raw.bytes = "json" THEN raw.value
    ELSE EmptyDict

\* _parse_json: None for b"" and for undecodable bytes, else the decoded value
_parse_json(raw) ==
    IF raw = EmptyBytes THEN None
    ELSE IF raw.bytes = "json" THEN raw.value
    ELSE None

\* _rewrite_id that hands the recorded response back as it is
_rewrite_id_recorded(response, request_id) == response

_rewrite_id(response, request_id) ==
    IF "id" \in DOMAIN response
    THEN [response EXCEPT !.id = request_id]
    ELSE response

_jsonrpc_error(request_id, code, message) ==
    [jsonrpc |-> "2.0", id |-> request_id,
     error |-> [code |-> code, message |-> message]]

\* "event: message\ndata: <payload>\n\n"
_make_sse_body(data) ==
    [bytes |-> "sse", events |-> <<[event |-> "message", data |-> data]>>]

Response(content, status_code, media_type, headers) ==
    [content |-> content, status_code |-> status_code,
     media_type |-> media_type, headers |-> headers]

_notification_response(sid) ==
    Response(EmptyBytes, 202, JNull,
             ("content-type" :> "application/json") @@ ("mcp-session-id" :> sid))

\* headers with an id made anew for the response
_mcp_headers_fresh(sid) ==
    ("mcp-session-id" :> "fresh") @@ ("cache-control" :> "no-cache, no-transform")

_mcp_headers(sid) ==
    ("mcp-session-id" :> sid) @@ ("cache-control" :> "no-cache, no-transform")

\* the content type a response goes out with: an explicit content-type
\* header, else the media_type
content_type(resp) ==
    IF "content-type" \in DOMAIN resp.headers THEN resp.headers["content-type"]
    ELSE resp.media_type

\* CassetteInteraction.tool_name
tool_name(i) ==
    IF jsonrpc_method(i) = "tools/call"
       /\ isinstance_dict(dict_get(i.request, "params", EmptyDict))
    THEN dict_get(dict_get(i.request, "params", EmptyDict), "name", JNull)
    ELSE JNull

\* no notification check: every body is taken for a request
has_id_always(body) == TRUE

\* "id" in body
has_id(body) == "id" \in DOMAIN body

\* the no-match message: the method, and the tool name when params has one
no_match_message(body) ==
    LET method == dict_get(body, "method", "")
        params == dict_get(body, "params", None)
    IN  IF isinstance_dict(params) /\ "name" \in DOMAIN params
        THEN <<"No matching interaction for", method, params.name>>
        ELSE <<"No matching interaction for", method>>

\* the SSE condition without the test for a null response
replay_as_sse_flag_only(matched, response_body) == matched.response_is_sse

\* the condition under which _handle_post answers with a StreamingResponse
replay_as_sse(matched, response_body) ==
    matched.response_is_sse /\ response_body # None

\* _handle_post from matcher.match onwards: the response for a request body
\* that carries an id, given what match returned
post_response(sid, ints, body, ret) ==
    LET request_id == dict_get(body, "id", JNull)
    IN  IF ret = 0
        THEN Response(json_dumps(_jsonrpc_error(request_id, -32600,
                                                no_match_message(body))),
                      200, "application/json", _mcp_headers(sid))
        ELSE LET matched == ints[ret]
                 response_body == IF matched.response # None
                                  THEN _rewrite_id(matched.response, request_id)
                                  ELSE matched.response
             IN  IF replay_as_sse(matched, response_body)
                 THEN Response(_make_sse_body(response_body),
                               matched.response_status, "text/event-stream",
                               _mcp_headers(sid))
                 ELSE Response(IF truthy(response_body)
                               THEN json_dumps(response_body) ELSE EmptyBytes,
                               matched.response_status, "application/json",
                               _mcp_headers(sid))

\* _handle_post up to the matcher: what the handler does with the raw body.
\* The result holds the response, the matcher afterwards and the position
\* match returned (-1 when match was not called).
_handle_post(sid, ints, m, raw) ==
    LET body == _parse_json(raw)
    IN  IF ~isinstance_dict(body)
        THEN [response |-> Response(json_dumps(_jsonrpc_error(JNull, -32700,
                                        <<"Parse error: invalid JSON">>)),
                                    200, "application/json", _mcp_headers(sid)),
              matcher |-> m, ret |-> -1]
        ELSE IF ~has_id(body)
        THEN [response |-> _notification_response(sid), matcher |-> m, ret |-> -1]
        ELSE LET r == match(m, body)
             IN  [response |-> post_response(sid, ints, body, r.ret),
                  matcher |-> r.matcher, ret |-> r.ret]

_handle_delete(sid) ==
    Response(EmptyBytes, 200, JNull,
             ("content-type" :> "application/json") @@ ("mcp-session-id" :> sid))

\* the keep-alive stream yields nothing
_handle_get(sid) ==
    Response([bytes |-> "sse", events |-> <<>>], 200, "text/event-stream",
             _mcp_headers(sid))

(***************************************************************************)
(* Inputs of the replay runs                                               *)
(***************************************************************************)
ParamsAdd == [name |-> "add"]
ParamsAddMeta == [name |-> "add", _meta |-> [progressToken |-> "t1"]]

\* request bodies a replay client sends: JSON objects with and without id
ReplayBodies ==
    { [jsonrpc |-> "2.0", id |-> "i1", method |-> "tools/call", params |-> ParamsAdd],
      [jsonrpc |-> "2.0", id |-> "i2", method |-> "tools/call", params |-> ParamsAddMeta],
      [jsonrpc |-> "2.0", method |-> "notifications/initialized"],
      [jsonrpc |-> "2.0", method |-> "tools/call", params |-> ParamsAdd] }

RawBodies ==
    {json_dumps(b) : b \in ReplayBodies} \cup {json_dumps(JArray), Garbage, EmptyBytes}

ResultResponse(id, text) ==
    [jsonrpc |-> "2.0", id |-> id, result |-> [text |-> text]]

\* interactions a cassette file can hold
RecordedInteractions ==
    { CassetteInteraction(JSONRPC_REQUEST,
          [jsonrpc |-> "2.0", id |-> "r1", method |-> "tools/call", params |-> ParamsAdd],
          ResultResponse("r1", "first"), TRUE, 200),
      CassetteInteraction(JSONRPC_REQUEST,
          [jsonrpc |-> "2.0", id |-> "r2", method |-> "tools/call", params |-> ParamsAddMeta],
          ResultResponse("r2", "second"), FALSE, 200),
      CassetteInteraction(JSONRPC_REQUEST,
          [jsonrpc |-> "2.0", id |-> "r3", method |-> "initialize"],
          None, TRUE, 200),
      CassetteInteraction(JSONRPC_REQUEST,
          [jsonrpc |-> "2.0", id |-> "r4", method |-> "tools/call", params |-> ParamsAdd],
          [error |-> [code |-> -32000, message |-> <<"upstream failure">>]], TRUE, 500),
      CassetteInteraction(JSONRPC_REQUEST,
          [jsonrpc |-> "2.0", id |-> "r5", method |-> "initialize"],
          EmptyDict, FALSE, 200),
      CassetteInteraction(JSONRPC_REQUEST, None, ResultResponse("r6", "third"), FALSE, 200),
      CassetteInteraction(NOTIFICATION,
          [jsonrpc |-> "2.0", method |-> "notifications/initialized"],
          None, FALSE, 202) }

SessionIds == {"sidA"}

\* an exchange: the locals of one _proxy task and of its stream_and_capture
\* generator, and what the task has sent so far
IdleExchange ==
    [pc |-> "idle", http_method |-> JNull, req_body |-> None,
     interaction_type |-> JNull, upstream_requests |-> 0,
     sse_events |-> <<>>, forwarded |-> <<>>, reply |-> 0,
     reply_body |-> EmptyBytes, outcome |-> "none",
     start |-> 0, end |-> 0, interaction |-> None]

\* no exchange has arrived: the proxy before its first request
NoExchanges == [e \in 1..NumExchanges |-> IdleExchange]

\* a replay handler: the request it was called with, the position match
\* returned to it (-1 when match was not called) and the response it sent
IdleHandler ==
    [pc |-> "idle", http_method |-> JNull, raw |-> EmptyBytes, ret |-> -1,
     response |-> Response(EmptyBytes, 0, JNull, EmptyDict)]

\* the replay server before its first request
NoHandlers == [h \in 1..NumHandlers |-> IdleHandler]

\* no second cassette
NoTwin == [interactions |-> <<>>, matcher |-> Matcher_init("method_params", <<>>),
           ret |-> -1]

\* a command that has not been run
Unused == [used |-> FALSE]

\* no file written, nothing loaded, forwarded, verified, compared or scrubbed
ToolsIdle ==
    /\ version = CASSETTE_FORMAT_VERSION
    /\ file = Unused
    /\ loaded = Unused
    /\ forwarded = Unused
    /\ verify = Unused
    /\ compared = Unused
    /\ scrubbed = Unused
    /\ server = Unused

(***************************************************************************)
(* Replay: create_replay_app(cassette, create_matcher(strategy, ...)) and  *)
(* the requests it serves                                                  *)
(***************************************************************************)
NoRequest == [kind |-> "none", raw |-> EmptyBytes, ret |-> -1,
              response |-> Response(EmptyBytes, 0, JNull, EmptyDict)]

InitReplay ==
    /\ interactions \in UNION {[1..n -> RecordedInteractions] : n \in 0..MaxInter}
    /\ metadata = CassetteMetadata
    /\ \E strategy \in Strategies : matcher = create_matcher(strategy, interactions)
    /\ session_id \in SessionIds
    /\ last = NoRequest
    /\ calls = <<>>
    /\ ex = NoExchanges
    /\ clock = 0
    /\ ToolsIdle
    /\ added = <<>>
    /\ handlers = NoHandlers
    /\ twin = NoTwin

ReplayPost(raw) ==
    LET h == _handle_post(session_id, interactions, matcher, raw)
    IN  /\ h.ret # -1 => Len(calls) < MaxCalls
        /\ matcher' = h.matcher
        /\ last' = [kind |-> "post", raw |-> raw, ret |-> h.ret, response |-> h.response]
        /\ calls' = IF h.ret = -1 THEN calls
                    ELSE Append(calls, [body |-> _parse_json(raw), ret |-> h.ret])
        /\ UNCHANGED <<interactions, metadata, session_id, ex, clock, added, handlers, twin, tools>>

ReplayGet ==
    /\ last' = [kind |-> "get", raw |-> EmptyBytes, ret |-> -1,
                response |-> _handle_get(session_id)]
    /\ UNCHANGED <<interactions, metadata, matcher, session_id, calls, ex, clock, added,
                 handlers, twin, tools>>

ReplayDelete ==
    /\ last' = [kind |-> "delete", raw |-> EmptyBytes, ret |-> -1,
                response |-> _handle_delete(session_id)]
    /\ UNCHANGED <<interactions, metadata, matcher, session_id, calls, ex, clock, added,
                 handlers, twin, tools>>

NextReplay ==
    \/ \E raw \in RawBodies : ReplayPost(raw)
    \/ ReplayGet
    \/ ReplayDelete

SpecReplay == InitReplay /\ [][NextReplay]_vars

(***************************************************************************)
(* Properties of the replay runs                                           *)
(***************************************************************************)
\* the key under which the matcher in use files a request
KeyInUse(request) ==
    IF matcher.strategy = "strict"
    THEN <<dict_get(request, "method", ""), dict_get(request, "params", None)>>
    ELSE <<dict_get(request, "method", ""),
           IF isinstance_dict(dict_get(request, "params", None))
           THEN [k \in DOMAIN request.params \ {"_meta"} |-> request.params[k]]
           ELSE dict_get(request, "params", None)>>

Positions == [p \in 1..Len(interactions) |-> p]

\* positions of the jsonrpc_request interactions filed under a key, in
\* recorded order
RecordingsWithKey(key) ==
    SelectSeq(Positions,
              LAMBDA p : /\ interactions[p].type = JSONRPC_REQUEST
                         /\ interactions[p].request # None
                         /\ KeyInUse(interactions[p].request) = key)

\* positions of all jsonrpc_request interactions, in recorded order
RequestPositions ==
    SelectSeq(Positions, LAMBDA p : interactions[p].type = JSONRPC_REQUEST)

\* how many of the first c match calls carried the key of call c
CallsWithKeyUpTo(c) ==
    Cardinality({d \in 1..c : KeyInUse(calls[d].body) = KeyInUse(calls[c].body)})

\* C1: under method_params and strict, the j-th match call with a given
\* key returns the j-th recorded jsonrpc_request interaction of that key,
\* in recorded order, and a call beyond the last such recording is a miss.
C1_DuplicatesFifo ==
    matcher.strategy \in {"method_params", "strict"} =>
        \A c \in 1..Len(calls) :
            LET recs == RecordingsWithKey(KeyInUse(calls[c].body))
                j == CallsWithKeyUpTo(c)
            IN  calls[c].ret = IF j <= Len(recs) THEN recs[j] ELSE 0

\* two recordings of one key consumed in order by three calls of that key,
\* the third a miss
C1_Witness ==
    /\ matcher.strategy \in {"method_params", "strict"}
    /\ Len(calls) = 3
    /\ \A c \in 1..3 : KeyInUse(calls[c].body) = KeyInUse(calls[1].body)
    /\ Len(RecordingsWithKey(KeyInUse(calls[1].body))) = 2
    /\ calls[1].ret = 1 /\ calls[2].ret = 2 /\ calls[3].ret = 0

\* C2: under sequential, the c-th match call returns the c-th recorded
\* jsonrpc_request interaction whatever its body, and every call after
\* the last of them is a miss.
C2_SequentialOrder ==
    matcher.strategy = "sequential" =>
        \A c \in 1..Len(calls) :
            calls[c].ret = IF c <= Len(RequestPositions)
                           THEN RequestPositions[c] ELSE 0

\* a cassette with a non-request entry first and one request, served to a
\* body with another method, then exhausted
C2_Witness ==
    /\ matcher.strategy = "sequential"
    /\ Len(interactions) = 2
    /\ interactions[1].type # JSONRPC_REQUEST
    /\ interactions[2].type = JSONRPC_REQUEST
    /\ Len(calls) = 2
    /\ calls[1].ret = 2 /\ calls[2].ret = 0
    /\ interactions[2].request # None
    /\ calls[1].body.method # interactions[2].request.method

\* the request of the last POST, its id, and the JSON value of the body sent
LastBody == _parse_json(last.raw)
LastId == dict_get(LastBody, "id", JNull)
SentBody ==
    CASE last.response.content.bytes = "json" -> last.response.content.value
      [] last.response.content.bytes = "sse" /\ last.response.content.events # <<>>
            -> last.response.content.events[1].data
      [] OTHER -> None

LastMatched == last.kind = "post" /\ last.ret > 0

\* sent and recorded agree on every field but id
SameButId(sent, recorded) ==
    /\ DOMAIN sent \ {"id"} = DOMAIN recorded \ {"id"}
    /\ \A k \in DOMAIN recorded \ {"id"} : sent[k] = recorded[k]

IsNotificationBody(body) == isinstance_dict(body) /\ "id" \notin DOMAIN body

\* C4: a POST whose JSON object body has no id is answered with 202, an
\* empty body and the session header, and the step leaves the matcher as
\* it was: buckets, queue, matched count, all_consumed, unmatched_requests.
C4_NotificationFrame ==
    [][(last'.kind = "post" /\ IsNotificationBody(_parse_json(last'.raw))) =>
        /\ last'.response.status_code = 202
        /\ last'.response.content = EmptyBytes
        /\ "mcp-session-id" \in DOMAIN last'.response.headers
        /\ last'.response.headers["mcp-session-id"] = session_id
        /\ matcher'.index = matcher.index
        /\ matcher'.queue = matcher.queue
        /\ matcher'.matched_count = matcher.matched_count
        /\ matcher'.unmatched_requests = matcher.unmatched_requests
        /\ all_consumed(matcher') = all_consumed(matcher)
        /\ calls' = calls]_vars

\* a notification was answered while the matcher held an unconsumed
\* recording filed under the notification's own key
C4_Witness ==
    /\ last.kind = "post"
    /\ IsNotificationBody(LastBody)
    /\ last.response.status_code = 202
    /\ matcher.matched_count = 0
    /\ matcher.total > 0
    /\ RecordingsWithKey(KeyInUse(LastBody)) # <<>>

\* C5: a POST that carries an id and finds no interaction is answered with
\* HTTP 200 and a JSON-RPC error of code -32600 under the request's id, and
\* its body is appended to unmatched_requests.
C5_MissAnswered ==
    [][(\E body \in ReplayBodies : calls' = Append(calls, [body |-> body, ret |-> 0])) =>
        LET body == _parse_json(last'.raw)
            sent == last'.response.content
        IN  /\ last'.response.status_code = 200
            /\ sent.bytes = "json"
            /\ sent.value.error.code = -32600
            /\ sent.value.id = body.id
            /\ matcher'.unmatched_requests = Append(matcher.unmatched_requests, body)]_vars

\* a second miss in a row: both bodies logged, the error sent under the id
C5_Witness ==
    /\ last.kind = "post"
    /\ last.ret = 0
    /\ Len(matcher.unmatched_requests) = 2
    /\ matcher.unmatched_requests[2] = LastBody
    /\ SentBody.error.code = -32600

\* C6: a matched POST is sent as text/event-stream with exactly one event,
\* the id-rewritten recorded response, when the matched interaction has
\* response_is_sse and a non-null response, and as application/json in
\* every other matched case.
C6_SseFraming ==
    LastMatched =>
        LET matched == interactions[last.ret]
            content == last.response.content
        IN  IF matched.response_is_sse /\ matched.response # None
            THEN /\ content_type(last.response) = "text/event-stream"
                 /\ content.bytes = "sse"
                 /\ Len(content.events) = 1
                 /\ SameButId(content.events[1].data, matched.response)
                 /\ "id" \in DOMAIN matched.response =>
                        content.events[1].data.id = LastId
            ELSE /\ content_type(last.response) = "application/json"
                 /\ content.bytes # "sse"

\* both branches taken: an SSE recording replayed as one event
C6_Witness ==
    /\ LastMatched
    /\ interactions[last.ret].response_is_sse
    /\ interactions[last.ret].response # None
    /\ last.response.media_type = "text/event-stream"
    /\ Len(last.response.content.events) = 1

\* the positions match has returned so far
ReturnedPositions == {calls[c].ret : c \in 1..Len(calls)} \ {0}

\* C17: for each strategy and after any sequence of match calls,
\* all_consumed (matched_count >= total) is true exactly when every
\* jsonrpc_request interaction of the cassette has been returned by a match
\* call; it is true from the start for a cassette without such interactions.
C17_AllConsumed ==
    /\ all_consumed(matcher) <=>
           \A p \in 1..Len(interactions) :
               interactions[p].type = JSONRPC_REQUEST => p \in ReturnedPositions
    /\ matcher.matched_count = Cardinality(ReturnedPositions)

\* both requests of a cassette returned, with a miss among the calls
C17_Witness ==
    /\ Len(RequestPositions) = 2
    /\ ReturnedPositions = {1, 2}
    /\ Len(calls) = 3
    /\ all_consumed(matcher)

\* the bodies of the calls that got no interaction, in call order
MissedBodies ==
    LET missed == SelectSeq(calls, LAMBDA call : call.ret = 0)
    IN  [k \in 1..Len(missed) |-> missed[k].body]

\* C18: unmatched_requests is the list of the bodies for which match
\* returned no interaction, in the order of the calls; a call that returns
\* an interaction adds nothing.
C18_UnmatchedInOrder == matcher.unmatched_requests = MissedBodies

\* a miss, a match and a miss of another body
C18_Witness ==
    /\ Len(calls) = 3
    /\ calls[1].ret = 0 /\ calls[2].ret > 0 /\ calls[3].ret = 0
    /\ calls[1].body # calls[3].body
    /\ matcher.unmatched_requests = <<calls[1].body, calls[3].body>>

\* the interactions a matcher holds: the entries of its buckets and queue
Held(m) ==
    Cardinality({kj \in (DOMAIN m.index) \X (1..Len(interactions)) :
                     kj[2] <= Len(m.index[kj[1]])})
    + Len(m.queue)

\* the counters of a matcher over the cassette agree with what it holds
CountsAgree(m) ==
    /\ m.matched_count <= m.total
    /\ m.matched_count + Held(m) = Held(create_matcher(m.strategy, interactions))

\* C35: under every strategy and after every call of match, matched_count
\* is at most total, and matched_count plus the number of interactions the
\* buckets or the queue still hold is the number they held at construction;
\* a call that misses leaves the buckets, the queue and matched_count as
\* they were.
C35_CountsConserved ==
    [][/\ CountsAgree(matcher)
       /\ CountsAgree(matcher')
       /\ (Len(calls') = Len(calls) + 1 /\ calls'[Len(calls')].ret = 0) =>
              /\ matcher'.index = matcher.index
              /\ matcher'.queue = matcher.queue
              /\ matcher'.matched_count = matcher.matched_count]_vars

\* a cassette with a request that has no body and one that has: one call
\* matched, the next missed, and total is more than what was indexed
C35_Witness ==
    /\ Len(calls) = 2
    /\ calls[1].ret > 0
    /\ calls[2].ret = 0
    /\ matcher.matched_count = 1
    /\ Held(matcher) = 0
    /\ matcher.total = 2
    /\ Len(matcher.unmatched_requests) = 1

NotAnObject(raw) == IF raw.bytes = "json" THEN ~isinstance_dict(raw.value) ELSE TRUE

\* C21: a POST whose body is not a JSON object (empty, undecodable, or JSON
\* of another kind) is answered with HTTP 200 and a JSON-RPC error of code
\* -32700 with id null, and the step leaves the matcher as it was: buckets,
\* queue, matched count, unmatched_requests.
C21_ParseError ==
    [][(last'.kind = "post" /\ NotAnObject(last'.raw)) =>
        LET sent == last'.response.content
        IN  /\ last'.response.status_code = 200
            /\ sent.bytes = "json"
            /\ sent.value.error.code = -32700
            /\ sent.value.id = JNull
            /\ matcher'.index = matcher.index
            /\ matcher'.queue = matcher.queue
            /\ matcher'.matched_count = matcher.matched_count
            /\ matcher'.unmatched_requests = matcher.unmatched_requests
            /\ calls' = calls]_vars

\* undecodable bytes were answered with the parse error by a matcher that
\* had both returned an interaction and logged a miss before
C21_Witness ==
    /\ last.kind = "post"
    /\ last.raw = Garbage
    /\ last.response.status_code = 200
    /\ last.response.content.value.error.code = -32700
    /\ matcher.matched_count > 0
    /\ matcher.unmatched_requests # <<>>

(***************************************************************************)
(* Replay with requests in flight.  The handlers are coroutines of one     *)
(* event loop (uvicorn.run in cli.py, one uvicorn.Server in                *)
(* pytest_plugin.py): a step is the code a handler runs between two        *)
(* awaits.  _handle_post awaits request.body() and runs to its return      *)
(* from there; _handle_get and _handle_delete have no await.  Handler h    *)
(* is the h-th to arrive.                                                  *)
(***************************************************************************)
\* uuid.uuid4().hex
uuid4_hex == {"sidA", "sidB"}

\* interactions of the cassettes served to requests in flight
SharedInteractions ==
    { CassetteInteraction(JSONRPC_REQUEST,
          [jsonrpc |-> "2.0", id |-> "r1", method |-> "tools/call", params |-> ParamsAdd],
          ResultResponse("r1", "first"), TRUE, 200),
      CassetteInteraction(NOTIFICATION,
          [jsonrpc |-> "2.0", method |-> "tools/call", params |-> ParamsAdd],
          None, FALSE, 202),
      LifecycleInteraction("GET", "/mcp", TRUE, 200) }

\* bodies of the POST requests in flight
SharedBodies ==
    { json_dumps([jsonrpc |-> "2.0", id |-> "i1", method |-> "tools/call",
                  params |-> ParamsAdd]),
      json_dumps([jsonrpc |-> "2.0", id |-> "i2", method |-> "tools/call",
                  params |-> ParamsAddMeta]),
      json_dumps([jsonrpc |-> "2.0", method |-> "notifications/initialized"]),
      Garbage }

InitConcurrent ==
    /\ interactions \in UNION {[1..n -> SharedInteractions] : n \in 0..MaxInter}
    /\ metadata = CassetteMetadata
    /\ \E strategy \in Strategies : matcher = create_matcher(strategy, interactions)
    /\ session_id \in uuid4_hex
    /\ last = NoRequest
    /\ calls = <<>>
    /\ ex = NoExchanges
    /\ clock = 0
    /\ ToolsIdle
    /\ added = <<>>
    /\ handlers = NoHandlers
    /\ twin = NoTwin

\* handler h is the next to arrive
NextToArrive(h) ==
    /\ handlers[h].pc = "idle"
    /\ \A g \in 1..(h - 1) : handlers[g].pc # "idle"

\* _handle_post up to await request.body()
PostArrives(h, raw) ==
    /\ NextToArrive(h)
    /\ handlers' = [handlers EXCEPT ![h] =
                       [@ EXCEPT !.pc = "reading", !.http_method = "POST", !.raw = raw]]
    /\ UNCHANGED <<interactions, metadata, matcher, session_id, last, calls,
                   ex, clock, added, twin, tools>>

\* _handle_post from the body's arrival to its return
PostServed(h) ==
    LET served == _handle_post(session_id, interactions, matcher, handlers[h].raw)
    IN  /\ handlers[h].pc = "reading"
        /\ matcher' = served.matcher
        /\ calls' = IF served.ret = -1 THEN calls
                    ELSE Append(calls, [body |-> _parse_json(handlers[h].raw),
                                        ret |-> served.ret])
        /\ handlers' = [handlers EXCEPT ![h] =
                           [@ EXCEPT !.pc = "done", !.ret = served.ret,
                                     !.response = served.response]]
        /\ UNCHANGED <<interactions, metadata, session_id, last, ex, clock, added, twin, tools>>

GetServed(h) ==
    /\ NextToArrive(h)
    /\ handlers' = [handlers EXCEPT ![h] =
                       [@ EXCEPT !.pc = "done", !.http_method = "GET",
                                 !.response = _handle_get(session_id)]]
    /\ UNCHANGED <<interactions, metadata, matcher, session_id, last, calls,
                   ex, clock, added, twin, tools>>

DeleteServed(h) ==
    /\ NextToArrive(h)
    /\ handlers' = [handlers EXCEPT ![h] =
                       [@ EXCEPT !.pc = "done", !.http_method = "DELETE",
                                 !.response = _handle_delete(session_id)]]
    /\ UNCHANGED <<interactions, metadata, matcher, session_id, last, calls,
                   ex, clock, added, twin, tools>>

NextConcurrent ==
    \E h \in 1..NumHandlers :
        \/ \E raw \in SharedBodies : PostArrives(h, raw)
        \/ PostServed(h)
        \/ GetServed(h)
        \/ DeleteServed(h)

SpecConcurrent == InitConcurrent /\ [][NextConcurrent]_vars

Handlers == 1..NumHandlers

\* the handlers match returned an interaction to
ServedFrom(p) == {h \in Handlers : handlers[h].ret = p}

\* C11: whatever the interleaving of the POST handlers that share the
\* matcher, each recorded interaction is returned to at most one request,
\* and matched_count is the number of requests that received one.
C11_MatchSerialized ==
    /\ \A p \in 1..Len(interactions) : Cardinality(ServedFrom(p)) <= 1
    /\ matcher.matched_count =
           Cardinality({h \in Handlers : handlers[h].ret > 0})

\* two requests of one key in flight together: the one that arrived second
\* was served first and got the first recording, the other the second
C11_Witness ==
    /\ Len(interactions) = 2
    /\ handlers[1].pc = "done" /\ handlers[2].pc = "done"
    /\ handlers[2].ret = 1
    /\ handlers[1].ret = 2
    /\ matcher.matched_count = 2

\* C19: no matcher returns an interaction of type notification or
\* lifecycle: the index and the queue hold jsonrpc_request interactions
\* only, and total counts these only.
C19_RequestsOnly ==
    /\ \A h \in Handlers :
           handlers[h].ret > 0 => interactions[handlers[h].ret].type = JSONRPC_REQUEST
    /\ \A key \in DOMAIN matcher.index :
           \A k \in 1..Len(matcher.index[key]) :
               interactions[matcher.index[key][k]].type = JSONRPC_REQUEST
    /\ \A k \in 1..Len(matcher.queue) :
           interactions[matcher.queue[k]].type = JSONRPC_REQUEST
    /\ matcher.total =
           Cardinality({p \in 1..Len(interactions) :
                            interactions[p].type = JSONRPC_REQUEST})

\* a cassette with a lifecycle or notification entry ahead of its one
\* request: the request went to the first caller, the second got nothing
C19_Witness ==
    /\ Len(interactions) = 2
    /\ interactions[1].type \in {NOTIFICATION, LIFECYCLE}
    /\ interactions[2].type = JSONRPC_REQUEST
    /\ \E h, g \in Handlers : handlers[h].ret = 2 /\ handlers[g].ret = 0
    /\ matcher.total = 1

\* the handlers that have sent their response
Answered == {h \in Handlers : handlers[h].pc = "done"}

\* C20: every response of the app, for POST (match, no match, parse error,
\* notification), GET and DELETE, carries the mcp-session-id header with
\* the value chosen when the app was created.
C20_OneSessionId ==
    \A h \in Answered :
        /\ "mcp-session-id" \in DOMAIN handlers[h].response.headers
        /\ handlers[h].response.headers["mcp-session-id"] = session_id

\* a DELETE and a POST without a match answered under the same id
C20_Witness ==
    /\ Answered = Handlers
    /\ \E h, g \in Handlers :
           /\ handlers[h].http_method = "DELETE"
           /\ handlers[g].http_method = "POST" /\ handlers[g].ret = 0
           /\ handlers[h].response.headers["mcp-session-id"]
                  = handlers[g].response.headers["mcp-session-id"]
    /\ session_id = "sidB"

(***************************************************************************)
(* Matching over two cassettes that differ in _meta only: every match call *)
(* on the matcher of the first is repeated on the matcher of the second    *)
(* (twin) with a body that differs in _meta only.                          *)
(***************************************************************************)
\* what becomes of the top-level _meta of a request's params: it is
\* removed, or set to a progress token
MetaChoices == {"absent", "t1", "t2"}

\* the request with the top-level _meta of its params replaced, added or
\* removed; a request without object params stays as it is
with_meta(request, choice) ==
    IF isinstance_dict(request) /\ "params" \in DOMAIN request
       /\ isinstance_dict(request.params)
    THEN [request EXCEPT !.params =
             IF choice = "absent"
             THEN [k \in DOMAIN request.params \ {"_meta"} |-> request.params[k]]
             ELSE [k \in DOMAIN request.params \cup {"_meta"} |->
                      IF k = "_meta" THEN [progressToken |-> choice]
                      ELSE request.params[k]]]
    ELSE request

AddRequest(id, choice) ==
    with_meta([jsonrpc |-> "2.0", id |-> id, method |-> "tools/call",
               params |-> ParamsAdd], choice)

\* recorded requests with and without _meta
MetaInteractions ==
    { CassetteInteraction(JSONRPC_REQUEST, AddRequest("r1", "absent"),
                          ResultResponse("r1", "first"), FALSE, 200),
      CassetteInteraction(JSONRPC_REQUEST, AddRequest("r2", "t1"),
                          ResultResponse("r2", "second"), FALSE, 200) }

\* incoming requests without _meta and with either token
MetaBodies == {AddRequest("i1", choice) : choice \in MetaChoices}

\* cassettes equal to ints but for the _meta of the recorded requests
MetaVariants(ints) ==
    { [p \in 1..Len(ints) |->
          [ints[p] EXCEPT !.request = with_meta(ints[p].request, choices[p])]] :
      choices \in [1..Len(ints) -> MetaChoices] }

InitMeta ==
    /\ interactions \in UNION {[1..n -> MetaInteractions] : n \in 0..MaxInter}
    /\ metadata = CassetteMetadata
    /\ \E strategy \in {"method_params", "strict"} :
           /\ matcher = create_matcher(strategy, interactions)
           /\ \E ints \in MetaVariants(interactions) :
                  twin = [interactions |-> ints,
                          matcher |-> create_matcher(strategy, ints),
                          ret |-> -1]
    /\ session_id = "sidA"
    /\ last = NoRequest
    /\ calls = <<>>
    /\ ex = NoExchanges
    /\ clock = 0
    /\ ToolsIdle
    /\ added = <<>>
    /\ handlers = NoHandlers

\* matcher.match(body) and, on the twin, match of the body with its _meta
\* changed
MatchBoth(body, choice) ==
    LET r == match(matcher, body)
        t == match(twin.matcher, with_meta(body, choice))
    IN  /\ Len(calls) < MaxMetaCalls
        /\ matcher' = r.matcher
        /\ calls' = Append(calls, [body |-> body, ret |-> r.ret])
        /\ twin' = [twin EXCEPT !.matcher = t.matcher, !.ret = t.ret]
        /\ UNCHANGED <<interactions, metadata, session_id, last, ex, clock, added,
                       handlers, tools>>

NextMeta == \E body \in MetaBodies, choice \in MetaChoices : MatchBoth(body, choice)

SpecMeta == InitMeta /\ [][NextMeta]_vars

\* C15: under method_params the outcome of every match call, the position
\* returned or a miss, is the same on two cassettes that differ in the
\* top-level _meta of recorded params only, for bodies that differ in the
\* top-level _meta of their params only.
C15_MetaIgnored ==
    (matcher.strategy = "method_params" /\ calls # <<>>) =>
        /\ twin.ret = calls[Len(calls)].ret
        /\ twin.matcher.matched_count = matcher.matched_count
        /\ Len(twin.matcher.unmatched_requests) = Len(matcher.unmatched_requests)

\* a recording whose _meta was removed served a body whose _meta was
\* replaced, as the recording with _meta served the body with another _meta
C15_Witness ==
    /\ matcher.strategy = "method_params"
    /\ Len(calls) = 1
    /\ calls[1].ret = 1
    /\ twin.ret = 1
    /\ "_meta" \in DOMAIN interactions[1].request.params
    /\ "_meta" \notin DOMAIN twin.interactions[1].request.params
    /\ "_meta" \in DOMAIN calls[1].body.params
    /\ calls[1].body.params # interactions[1].request.params

\* method and raw params, _meta included, are the same
SameRaw(a, b) ==
    /\ dict_get(a, "method", "") = dict_get(b, "method", "")
    /\ dict_get(a, "params", None) = dict_get(b, "params", None)

\* C16: under strict a call returns a recording only when method and raw
\* params, _meta included, are identical, so a body that differs from a
\* recording in the value of _meta does not get it; and a call is a miss
\* only when every recording with identical method and raw params has been
\* returned before.
C16_StrictMeta ==
    matcher.strategy = "strict" =>
        \A c \in 1..Len(calls) :
            IF calls[c].ret > 0
            THEN SameRaw(calls[c].body, interactions[calls[c].ret].request)
            ELSE \A p \in 1..Len(interactions) :
                     SameRaw(calls[c].body, interactions[p].request) =>
                         \E b \in 1..(c - 1) : calls[b].ret = p

\* a recording with token t1: the body with token t2 missed it, the body
\* with token t1 then got it
C16_Witness ==
    /\ matcher.strategy = "strict"
    /\ Len(interactions) = 1
    /\ Len(calls) = 2
    /\ interactions[1].request.params = with_meta(calls[2].body, "t1").params
    /\ calls[1].body.params = with_meta(calls[1].body, "t2").params
    /\ calls[1].ret = 0
    /\ calls[2].body.params = interactions[1].request.params
    /\ calls[2].ret = 1

(***************************************************************************)
(* Two matchers over one cassette, each fed one request of a pair that     *)
(* differs in id, in other top-level fields and in the _meta of the params *)
(***************************************************************************)
MaxPairCalls == 2

PairInteractions ==
    { CassetteInteraction(JSONRPC_REQUEST,
          [jsonrpc |-> "2.0", id |-> "i1", method |-> "tools/call", params |-> ParamsAdd],
          ResultResponse("i1", "first"), FALSE, 200),
      CassetteInteraction(JSONRPC_REQUEST,
          [jsonrpc |-> "2.0", id |-> "r2", method |-> "tools/call",
           params |-> ParamsAddMeta],
          ResultResponse("r2", "second"), FALSE, 200),
      CassetteInteraction(JSONRPC_REQUEST,
          [jsonrpc |-> "2.0", id |-> "r3", method |-> "initialize"],
          ResultResponse("r3", "third"), FALSE, 200) }

\* incoming requests: two ids, another jsonrpc value, a top-level field of
\* the client's own, params with and without _meta, and no params
PairBodies ==
    { [jsonrpc |-> "2.0", id |-> "i1", method |-> "tools/call", params |-> ParamsAdd],
      [jsonrpc |-> "2.0", id |-> "i2", method |-> "tools/call", params |-> ParamsAdd],
      [jsonrpc |-> "1.0", id |-> "i1", method |-> "tools/call", trace |-> "x",
       params |-> ParamsAddMeta],
      [jsonrpc |-> "2.0", id |-> "i1", method |-> "initialize"],
      [jsonrpc |-> "2.0", id |-> "i2", method |-> "initialize", trace |-> "x"] }

\* the params of a request without their top-level _meta
ParamsSansMeta(body) ==
    IF "params" \in DOMAIN body
    THEN [k \in DOMAIN body.params \ {"_meta"} |-> body.params[k]]
    ELSE None

\* requests with the same method and the same params but for _meta
SameMethodAndParams(a, b) ==
    /\ a.method = b.method
    /\ ParamsSansMeta(a) = ParamsSansMeta(b)

InitPair ==
    /\ interactions \in UNION {[1..n -> PairInteractions] : n \in 0..MaxInter}
    /\ metadata = CassetteMetadata
    /\ matcher = create_matcher("method_params", interactions)
    /\ twin = [interactions |-> interactions,
               matcher |-> create_matcher("method_params", interactions),
               ret |-> -1]
    /\ session_id = "sidA"
    /\ last = NoRequest
    /\ calls = <<>>
    /\ ex = NoExchanges
    /\ clock = 0
    /\ ToolsIdle
    /\ added = <<>>
    /\ handlers = NoHandlers

\* match(body) on the one matcher and match(other) on the other
MatchPair(body, other) ==
    LET r == match(matcher, body)
        t == match(twin.matcher, other)
    IN  /\ Len(calls) < MaxPairCalls
        /\ SameMethodAndParams(body, other)
        /\ matcher' = r.matcher
        /\ calls' = Append(calls, [body |-> body, ret |-> r.ret])
        /\ twin' = [twin EXCEPT !.matcher = t.matcher, !.ret = t.ret]
        /\ last' = [last EXCEPT !.raw = json_dumps(other)]
        /\ UNCHANGED <<interactions, metadata, session_id, ex, clock, added,
                       handlers, tools>>

NextPair == \E body \in PairBodies, other \in PairBodies : MatchPair(body, other)

SpecPair == InitPair /\ [][NextPair]_vars

\* C36: under method_params two requests with the same method and the same
\* params but for the top-level _meta, whatever their ids and their other
\* top-level fields, get the same outcome from matchers in the same state:
\* the same recording or a miss both, and the same buckets and count after.
C36_KeyOnly ==
    /\ twin.matcher.index = matcher.index
    /\ twin.matcher.matched_count = matcher.matched_count
    /\ Len(twin.matcher.unmatched_requests) = Len(matcher.unmatched_requests)
    /\ calls # <<>> => twin.ret = calls[Len(calls)].ret

\* a request with id i2 and one with id i1, another jsonrpc value, a field
\* trace and a _meta both got the first recording; then two requests with
\* different ids both missed
C36_Witness ==
    /\ Len(calls) = 2
    /\ Len(interactions) = 1
    /\ calls[1].ret = 1
    /\ calls[2].ret = 0
    /\ twin.ret = 0
    /\ calls[2].body.id = "i2"
    /\ last.raw.value.id = "i1"
    /\ "trace" \in DOMAIN last.raw.value
    /\ "_meta" \in DOMAIN last.raw.value.params
    /\ matcher.matched_count = 1

(***************************************************************************)
(* A replay client that sends the recorded requests back, each once, in    *)
(* any order, to a method_params matcher over the cassette                 *)
(***************************************************************************)
MaxPermInter == 3

\* the positions of the jsonrpc_request interactions of the cassette
RequestSet ==
    {p \in 1..Len(interactions) : interactions[p].type = JSONRPC_REQUEST}

\* the positions whose request has been sent back
Sent == {calls[k].of : k \in 1..Len(calls)}

InitPermutation ==
    /\ interactions \in UNION {[1..n -> RecordedInteractions] : n \in 0..MaxPermInter}
    /\ metadata = CassetteMetadata
    /\ matcher = create_matcher("method_params", interactions)
    /\ session_id = "sidA"
    /\ last = NoRequest
    /\ calls = <<>>
    /\ ex = NoExchanges
    /\ clock = 0
    /\ ToolsIdle
    /\ added = <<>>
    /\ handlers = NoHandlers
    /\ twin = NoTwin

\* match(interactions[p].request) for a recorded request not sent yet
MatchRecorded(p) ==
    LET body == interactions[p].request
        r == match(matcher, body)
    IN  /\ p \in RequestSet \ Sent
        /\ body # None
        /\ matcher' = r.matcher
        /\ calls' = Append(calls, [body |-> body, ret |-> r.ret, of |-> p])
        /\ UNCHANGED <<interactions, metadata, session_id, last, ex, clock, added,
                       handlers, twin, tools>>

NextPermutation == \E p \in 1..Len(interactions) : MatchRecorded(p)

SpecPermutation == InitPermutation /\ [][NextPermutation]_vars

\* C37: under method_params, when every jsonrpc_request interaction of the
\* cassette has a request and the incoming requests are those requests, each
\* once and in any order, every incoming request is matched,
\* unmatched_requests stays empty and all_consumed is true after the last one.
C37_PermutationConsumes ==
    (\A p \in RequestSet : interactions[p].request # None) =>
        /\ \A k \in 1..Len(calls) : calls[k].ret \in RequestSet
        /\ matcher.unmatched_requests = <<>>
        /\ Sent = RequestSet => all_consumed(matcher)

\* three recorded requests with one key (two ids, one with _meta) sent back
\* last first: each got a recording, in recorded order
C37_Witness ==
    /\ Len(interactions) = 3
    /\ RequestSet = {1, 2, 3}
    /\ \A p \in 1..3 : interactions[p].request # None
    /\ Len(calls) = 3
    /\ <<calls[1].of, calls[2].of, calls[3].of>> = <<3, 2, 1>>
    /\ <<calls[1].ret, calls[2].ret, calls[3].ret>> = <<1, 2, 3>>
    /\ interactions[1].request.id # interactions[3].request.id
    /\ \A p \in 1..3 : interactions[p].request.method = "tools/call"
    /\ "_meta" \in DOMAIN interactions[2].request.params
    /\ all_consumed(matcher)

(***************************************************************************)
(* Cassette: add_interaction called on a fresh cassette                    *)
(***************************************************************************)
InitializeRequest(id) == [jsonrpc |-> "2.0", id |-> id, method |-> "initialize"]

InitializeResponse(id, protocolVersion, name) ==
    [jsonrpc |-> "2.0", id |-> id,
     result |-> [protocolVersion |-> protocolVersion, serverInfo |-> [name |-> name]]]

\* interactions handed to add_interaction
AddedInteractions ==
    { CassetteInteraction(JSONRPC_REQUEST, InitializeRequest("a1"),
          InitializeResponse("a1", "2024-11-05", "alpha"), FALSE, 200),
      CassetteInteraction(JSONRPC_REQUEST, InitializeRequest("a2"),
          InitializeResponse("a2", "2025-03-26", "beta"), TRUE, 200),
      CassetteInteraction(JSONRPC_REQUEST, InitializeRequest("a3"), None, TRUE, 200),
      CassetteInteraction(JSONRPC_REQUEST, InitializeRequest("a4"),
          [jsonrpc |-> "2.0", id |-> "a4",
           error |-> [code |-> -32000, message |-> <<"upstream failure">>]], FALSE, 200),
      CassetteInteraction(JSONRPC_REQUEST,
          [jsonrpc |-> "2.0", id |-> "a5", method |-> "tools/call", params |-> ParamsAdd],
          ResultResponse("a5", "first"), TRUE, 200),
      CassetteInteraction(NOTIFICATION,
          [jsonrpc |-> "2.0", method |-> "notifications/initialized"],
          None, FALSE, 202),
      LifecycleInteraction("DELETE", "/mcp", FALSE, 200) }

InitCassette ==
    /\ interactions = <<>>
    /\ metadata = CassetteMetadata
    /\ matcher = create_matcher("method_params", <<>>)
    /\ session_id = "sidA"
    /\ last = NoRequest
    /\ calls = <<>>
    /\ ex = NoExchanges
    /\ clock = 0
    /\ ToolsIdle
    /\ added = <<>>
    /\ handlers = NoHandlers
    /\ twin = NoTwin

AddInteraction(interaction) ==
    LET after == add_interaction(interactions, metadata, interaction)
    IN  /\ Len(interactions) < MaxAdds
        /\ interactions' = after.interactions
        /\ metadata' = after.metadata
        /\ UNCHANGED <<matcher, session_id, last, calls, ex, clock, added, handlers, twin, tools>>

NextCassette == \E interaction \in AddedInteractions : AddInteraction(interaction)

SpecCassette == InitCassette /\ [][NextCassette]_vars

\* positions of the initialize interactions that carry a response
InitializePositions ==
    SelectSeq(Positions,
              LAMBDA p : /\ isinstance_dict(interactions[p].request)
                         /\ "method" \in DOMAIN interactions[p].request
                         /\ interactions[p].request.method = "initialize"
                         /\ interactions[p].response # None)

\* C7: the metadata's protocol_version and server_info are those of the
\* first added initialize interaction with a non-null response; later
\* initialize interactions do not overwrite them.
C7_FirstInitializeKept ==
    InitializePositions # <<>> =>
        LET first == interactions[InitializePositions[1]].response
            result == dict_get(first, "result", EmptyDict)
        IN  /\ metadata.protocol_version = dict_get(result, "protocolVersion", JNull)
            /\ metadata.server_info = dict_get(result, "serverInfo", None)

(***************************************************************************)
(* proxy.py                                                                *)
(*                                                                         *)
(* Each exchange is one task of the event loop.  A step of the model is    *)
(* the code a task runs between two awaits: Python code without an await   *)
(* is not interleaved with other tasks.  A line of an SSE stream is a      *)
(* record: a "data:" line with its payload bytes, or another line.         *)
(***************************************************************************)
DataLine(payload) == [kind |-> "data", payload |-> payload]
OtherLine == [kind |-> "other", payload |-> EmptyBytes]

\* _parse_sse_data: the decoded payload of a data: line, of whatever JSON
\* type it is; None for other lines, empty or undecodable payloads and for
\* the payload null
_parse_sse_data(line) ==
    IF line.kind # "data" THEN None
    ELSE IF line.payload = EmptyBytes THEN None
    ELSE IF line.payload.bytes = "json" THEN line.payload.value
    ELSE None

\* proxy.py's _parse_json: dict, list or None
proxy_parse_json(raw) ==
    IF raw = EmptyBytes THEN None
    ELSE IF raw.bytes = "json" THEN raw.value
    ELSE None

\* classification by the HTTP method alone
_classify_by_method(method, body) ==
    IF method \in {"DELETE", "GET"} THEN LIFECYCLE ELSE JSONRPC_REQUEST

_classify_interaction(method, body) ==
    IF method \in {"DELETE", "GET"} THEN LIFECYCLE
    ELSE IF isinstance_dict(body) /\ "id" \notin DOMAIN body THEN NOTIFICATION
    ELSE JSONRPC_REQUEST

\* pydantic's check of CassetteInteraction.response: dict[str, Any] | None
valid_response(response) == response = None \/ isinstance_dict(response)

\* response_body = sse_events[0] if sse_events else None
first_event(sse_events) == IF sse_events # <<>> THEN sse_events[1] ELSE None

\* the interaction stream_and_capture's finally block builds
sse_interaction(x) ==
    CassetteInteraction(x.interaction_type,
                        IF isinstance_dict(x.req_body) THEN x.req_body ELSE None,
                        first_event(x.sse_events), TRUE, 200)

\* requests a recording client sends through the proxy
ProxyRequests ==
    { [http_method |-> "POST",
       raw |-> json_dumps([jsonrpc |-> "2.0", id |-> "p1", method |-> "tools/call",
                           params |-> ParamsAdd])],
      [http_method |-> "POST",
       raw |-> json_dumps([jsonrpc |-> "2.0", method |-> "notifications/initialized"])],
      [http_method |-> "POST", raw |-> json_dumps(JArray)],
      [http_method |-> "GET", raw |-> EmptyBytes],
      [http_method |-> "DELETE", raw |-> EmptyBytes] }

\* bodies of the upstream's plain responses
PlainContents == {json_dumps(ResultResponse("p1", "plain")), EmptyBytes}

\* lines of the upstream's SSE streams
SseLines ==
    { DataLine(json_dumps(ResultResponse("p1", "first"))),
      DataLine(json_dumps(ResultResponse("p1", "second"))),
      DataLine(json_dumps(JArray)),
      DataLine(json_dumps(None)),
      OtherLine }

RECURSIVE lines_forwarded(_, _)
lines_forwarded(exs, n) ==
    IF n = 0 THEN 0 ELSE lines_forwarded(exs, n - 1) + Len(exs[n].forwarded)

\* the exchange reaches cassette.add_interaction(interaction)
Record(e, x, interaction) ==
    LET after == add_interaction(interactions, metadata, interaction)
    IN  /\ interactions' = after.interactions
        /\ metadata' = after.metadata
        /\ added' = Append(added, e)
        /\ ex' = [ex EXCEPT ![e] = [x EXCEPT !.interaction = interaction]]

\* _proxy up to its first await on the upstream: lines 94-127 and 241-249
Receive(e, request) ==
    LET body == proxy_parse_json(request.raw)
    IN  /\ ex[e].pc = "idle"
        /\ ex' = [ex EXCEPT ![e] =
                    [@ EXCEPT !.pc = "forwarding",
                              !.http_method = request.http_method,
                              !.req_body = body,
                              !.interaction_type =
                                  _classify_interaction(request.http_method, body),
                              !.upstream_requests = 1,
                              !.start = clock]]
        /\ clock' = clock + 1
        /\ UNCHANGED <<interactions, metadata, added>>
        /\ UNCHANGED <<matcher, session_id, last, calls, handlers, twin, tools>>

\* json.dumps({"error": f"Upstream error: {exc}"})
upstream_error_body == json_dumps([error |-> <<"Upstream error">>])

\* client.request raises httpx.HTTPError, in _proxy or in _handle_lifecycle:
\* 502, nothing recorded
UpstreamError(e) ==
    /\ ex[e].pc = "forwarding"
    /\ ex' = [ex EXCEPT ![e] =
                [@ EXCEPT !.pc = "done", !.reply = 502,
                          !.reply_body = upstream_error_body,
                          !.outcome = "upstream_error", !.end = clock]]
    /\ clock' = clock + 1
    /\ UNCHANGED <<interactions, metadata, added>>
    /\ UNCHANGED <<matcher, session_id, last, calls, handlers, twin, tools>>

\* client.request returns a response that is not an event stream
UpstreamPlain(e, content) ==
    LET x == ex[e]
        resp_body == proxy_parse_json(content)
        interaction ==
            IF x.interaction_type = LIFECYCLE
            THEN LifecycleInteraction(x.http_method, "/mcp", FALSE, 200)
            ELSE CassetteInteraction(x.interaction_type,
                     IF isinstance_dict(x.req_body) THEN x.req_body ELSE None,
                     IF isinstance_dict(resp_body) THEN resp_body ELSE None,
                     FALSE, 200)
    IN  /\ x.pc = "forwarding"
        /\ Record(e, [x EXCEPT !.pc = "done", !.reply = 200, !.reply_body = content,
                               !.outcome = "plain", !.end = clock], interaction)
        /\ clock' = clock + 1
        /\ UNCHANGED <<matcher, session_id, last, calls, handlers, twin, tools>>

\* client.request returns a text/event-stream response: a lifecycle
\* exchange is recorded at once; any other exchange answers with a
\* StreamingResponse whose generator opens client.stream
UpstreamSse(e) ==
    LET x == ex[e]
    IN  /\ x.pc = "forwarding"
        /\ IF x.interaction_type = LIFECYCLE
           THEN /\ Record(e, [x EXCEPT !.pc = "done", !.reply = 200,
                                       !.outcome = "lifecycle_sse", !.end = clock],
                          LifecycleInteraction(x.http_method, "/mcp", TRUE, 200))
                /\ clock' = clock + 1
           ELSE /\ ex' = [ex EXCEPT ![e] =
                            [x EXCEPT !.pc = "streaming", !.reply = 200,
                                      !.upstream_requests = 2]]
                /\ UNCHANGED <<interactions, metadata, added, clock>>
        /\ UNCHANGED <<matcher, session_id, last, calls, handlers, twin, tools>>

\* aiter_lines delivers a line and the generator yields it downstream
StreamLine(e, line, budget) ==
    /\ ex[e].pc = "streaming"
    /\ lines_forwarded(ex, NumExchanges) < budget
    /\ ex' = [ex EXCEPT ![e] =
                [@ EXCEPT !.pc = "yielded", !.forwarded = Append(@, line)]]
    /\ UNCHANGED <<interactions, metadata, added, clock>>
    /\ UNCHANGED <<matcher, session_id, last, calls, handlers, twin, tools>>

\* the generator is resumed after the yield: the line is parsed and kept
ResumeStream(e) ==
    LET x == ex[e]
        parsed == _parse_sse_data(x.forwarded[Len(x.forwarded)])
    IN  /\ x.pc = "yielded"
        /\ ex' = [ex EXCEPT ![e] =
                    [x EXCEPT !.pc = "streaming",
                              !.sse_events = IF parsed # None THEN Append(@, parsed)
                                             ELSE @]]
        /\ UNCHANGED <<interactions, metadata, added, clock>>
        /\ UNCHANGED <<matcher, session_id, last, calls, handlers, twin, tools>>

\* the finally block of stream_and_capture: the interaction is built, which
\* raises when the first event is not an object, and then added
Finally(e, outcome) ==
    LET x == [ex[e] EXCEPT !.pc = "done", !.outcome = outcome, !.end = clock]
    IN  /\ IF valid_response(first_event(x.sse_events))
           THEN Record(e, x, sse_interaction(x))
           ELSE /\ ex' = [ex EXCEPT ![e] = x]
                /\ UNCHANGED <<interactions, metadata, added>>
        /\ clock' = clock + 1
        /\ UNCHANGED <<matcher, session_id, last, calls, handlers, twin, tools>>

\* the upstream stream ends
StreamEnd(e) ==
    /\ ex[e].pc = "streaming"
    /\ Finally(e, "end")

\* client.stream, the second request of the exchange, raises a transport
\* error before it delivers a line: the exception leaves the generator
\* through the finally block
StreamOpenError(e) ==
    /\ ex[e].pc = "streaming"
    /\ ex[e].forwarded = <<>>
    /\ Finally(e, "stream_open_error")

\* reading the upstream stream raises
StreamError(e) ==
    /\ ex[e].pc = "streaming"
    /\ Finally(e, "stream_error")

\* the caller goes away: the generator is closed where it is suspended
Disconnect(e) ==
    /\ ex[e].pc \in {"streaming", "yielded"}
    /\ Finally(e, "disconnected")

InitProxy ==
    /\ interactions = <<>>
    /\ metadata = CassetteMetadata
    /\ matcher = create_matcher("method_params", <<>>)
    /\ session_id = "sidA"
    /\ last = NoRequest
    /\ calls = <<>>
    /\ ex = NoExchanges
    /\ clock = 0
    /\ ToolsIdle
    /\ added = <<>>
    /\ handlers = NoHandlers
    /\ twin = NoTwin

\* requests of concurrent exchanges: one that is recorded by _proxy or by
\* stream_and_capture, one that is recorded by _handle_lifecycle
SharedRequests ==
    {request \in ProxyRequests :
        \/ request.http_method = "GET"
        \/ "id" \in DOMAIN proxy_parse_json(request.raw)}

\* lines of the streams of concurrent exchanges
SharedLines ==
    { DataLine(json_dumps(ResultResponse("p1", "first"))),
      DataLine(json_dumps(JArray)) }

\* concurrent exchanges over one cassette
NextProxy ==
    \E e \in 1..NumExchanges :
        \/ \E request \in SharedRequests : Receive(e, request)
        \/ UpstreamError(e)
        \/ \E content \in PlainContents : UpstreamPlain(e, content)
        \/ UpstreamSse(e)
        \/ \E line \in SharedLines : StreamLine(e, line, MaxSharedLines)
        \/ ResumeStream(e)
        \/ StreamEnd(e)
        \/ StreamOpenError(e)
        \/ StreamError(e)
        \/ Disconnect(e)

SpecProxy == InitProxy /\ [][NextProxy]_vars

\* one exchange at a time, with every kind of stream line
NextExchange ==
    \/ \E request \in ProxyRequests : Receive(1, request)
    \/ UpstreamError(1)
    \/ \E content \in PlainContents : UpstreamPlain(1, content)
    \/ UpstreamSse(1)
    \/ \E line \in SseLines : StreamLine(1, line, MaxLines)
    \/ ResumeStream(1)
    \/ StreamEnd(1)
    \/ StreamOpenError(1)
    \/ StreamError(1)
    \/ Disconnect(1)

SpecExchange == InitProxy /\ [][NextExchange]_vars

(***************************************************************************)
(* Properties of the recording runs                                        *)
(***************************************************************************)
Exchanges == 1..NumExchanges

\* the exchange called cassette.add_interaction
ReachedRecording(e) == "type" \in DOMAIN ex[e].interaction

RecordedExchanges == {e \in Exchanges : ReachedRecording(e)}

\* the JSON values the data: lines of a stream carry, in stream order
JsonDataEvents(lines) ==
    LET carrying == SelectSeq(lines,
                        LAMBDA l : l.kind = "data" /\ l.payload.bytes = "json")
    IN  [k \in 1..Len(carrying) |-> carrying[k].payload.value]

\* C8: an SSE exchange whose upstream stream carried the JSON data events
\* e0, e1, ... and ran to its end is recorded as exactly one interaction,
\* with response e0 and response_is_sse true, and with a null response when
\* the stream carried no JSON data event.
C8_FirstEventRecorded ==
    \A e \in Exchanges :
        ex[e].outcome = "end" =>
            LET events == JsonDataEvents(ex[e].forwarded)
            IN  /\ Cardinality({k \in 1..Len(added) : added[k] = e}) = 1
                /\ \A k \in 1..Len(added) :
                       added[k] = e =>
                           /\ k <= Len(interactions)
                           /\ interactions[k].response_is_sse
                           /\ interactions[k].response =
                                  IF events # <<>> THEN events[1] ELSE None

\* the place of an exchange among the recorded ones, by completion time
CompletionRank(e) ==
    Cardinality({f \in RecordedExchanges : ex[f].end <= ex[e].end})

\* C9: the cassette lists the recorded exchanges in the order in which they
\* completed; an exchange with an SSE response completes at the close of
\* its stream, so one that starts first and ends last is placed last.
C9_CompletionOrder ==
    /\ Len(interactions) = Cardinality(RecordedExchanges)
    /\ \A e \in RecordedExchanges :
           interactions[CompletionRank(e)] = ex[e].interaction

\* an SSE exchange that started before a plain one and ended after it
C9_Witness ==
    \E a, b \in Exchanges :
        /\ ex[a].outcome = "end"
        /\ ex[b].outcome = "plain"
        /\ ex[a].start < ex[b].start
        /\ ex[b].end < ex[a].end
        /\ ReachedRecording(a)
        /\ interactions = <<ex[b].interaction, ex[a].interaction>>
        /\ ex[a].interaction # ex[b].interaction

\* C10: appends of concurrent exchanges do not interfere: every interaction
\* handed to add_interaction is in the cassette as often as it was handed
\* in, and the cassette is as long as the number of exchanges that reached
\* add_interaction.
C10_AppendsAtomic ==
    /\ Len(interactions) = Cardinality(RecordedExchanges)
    /\ \A v \in {ex[e].interaction : e \in RecordedExchanges}
                \cup {interactions[k] : k \in 1..Len(interactions)} :
           Cardinality({k \in 1..Len(interactions) : interactions[k] = v})
               = Cardinality({e \in RecordedExchanges : ex[e].interaction = v})

\* two exchanges in flight at the same time, both recorded
C10_Witness ==
    /\ RecordedExchanges = {1, 2}
    /\ ex[1].start < ex[2].end
    /\ ex[2].start < ex[1].end
    /\ Len(interactions) = 2
    /\ ex[1].outcome = "end"
    /\ ex[2].outcome = "disconnected"

\* C33: every step of a recording leaves the list of interactions as it is
\* or is one call of add_interaction, which puts the interaction it was
\* handed at the end and leaves the interactions before it where and what
\* they were; so the list at any time is a prefix of the list at any later
\* time.
C33_OnlyGrows ==
    [][\/ interactions' = interactions
       \/ \E e \in Exchanges :
              /\ added' = Append(added, e)
              /\ Len(interactions') = Len(interactions) + 1
              /\ SubSeq(interactions', 1, Len(interactions)) = interactions
              /\ interactions'[Len(interactions')] = ex'[e].interaction]_vars

\* two exchanges were recorded one after the other, the second to arrive
\* first, and the interaction of the first to be recorded is still in front
C33_Witness ==
    /\ added = <<2, 1>>
    /\ Len(interactions) = 2
    /\ interactions[1] = ex[2].interaction
    /\ interactions[2] = ex[1].interaction
    /\ ex[1].interaction # ex[2].interaction

\* the exchange appended for the k-th call of add_interaction
AddedBy(e) == {k \in 1..Len(added) : added[k] = e}

\* C12: an SSE exchange whose caller went away while the stream was being
\* forwarded reads no further line and is recorded as exactly one
\* interaction, with response_is_sse true and, as response, the first event
\* captured before the disconnect (null when none was captured).
C12_DisconnectRecorded ==
    \A e \in Exchanges :
        ex[e].outcome = "disconnected" =>
            /\ ex[e].pc = "done"
            /\ Cardinality(AddedBy(e)) = 1
            /\ \A k \in AddedBy(e) :
                   /\ k <= Len(interactions)
                   /\ interactions[k].response_is_sse
                   /\ interactions[k].response = first_event(ex[e].sse_events)

\* C13: an exchange whose forwarding request met a transport error, in
\* _proxy, in _handle_lifecycle or when the stream was opened, answers 502
\* with a JSON body that has an error field, and appends nothing.
C13_TransportError ==
    \A e \in Exchanges :
        ex[e].outcome \in {"upstream_error", "stream_open_error"} =>
            /\ ex[e].reply = 502
            /\ ex[e].reply_body.bytes = "json"
            /\ "error" \in DOMAIN ex[e].reply_body.value
            /\ AddedBy(e) = {}

\* C38: for each request it has received the proxy has issued exactly one
\* request to the upstream, also when the upstream answers with an event
\* stream.
C38_OneUpstreamRequest ==
    \A e \in Exchanges :
        ex[e].pc # "idle" => ex[e].upstream_requests = 1

\* C39: an SSE exchange whose stream ran to its end has appended one
\* interaction, whatever JSON values its data lines carried, a first payload
\* that is an array included.
C39_StreamEndRecorded ==
    \A e \in Exchanges :
        ex[e].outcome = "end" =>
            /\ ReachedRecording(e)
            /\ Cardinality(AddedBy(e)) = 1

\* the exchange was recorded by the finally block of stream_and_capture
RecordedFromStream(e) ==
    /\ ReachedRecording(e)
    /\ ex[e].outcome \in {"end", "stream_open_error", "stream_error", "disconnected"}

\* C40: the lines sent downstream are the upstream lines in upstream order,
\* and the response of an exchange recorded from its stream is the first
\* JSON data event among the lines that were sent downstream (null when
\* there is none), also when the caller went away: no event was forwarded
\* and is missing from the capture.
C40_ForwardedCaptured ==
    \A e \in Exchanges :
        RecordedFromStream(e) =>
            LET events == JsonDataEvents(ex[e].forwarded)
            IN  /\ Len(ex[e].sse_events) = Len(events)
                /\ ex[e].interaction.response =
                       IF events # <<>> THEN events[1] ELSE None

\* the body of the request is JSON text
HasJsonBody(e) == ex[e].req_body # None

\* the statement of C14 as written: any JSON body without id makes a POST
\* a notification
C14_AsClaimed ==
    \A k \in 1..Len(added) :
        LET e == added[k]
            body == ex[e].req_body
            type == interactions[k].type
        IN  /\ ex[e].http_method \in {"GET", "DELETE"} => type = LIFECYCLE
            /\ (ex[e].http_method = "POST" /\ HasJsonBody(e)) =>
                   type = IF isinstance_dict(body) /\ "id" \in DOMAIN body
                          THEN JSONRPC_REQUEST ELSE NOTIFICATION

\* C14 (amended): every recorded interaction has the type of its exchange:
\* lifecycle for GET and DELETE; for POST, notification when the body is a
\* JSON object without id, and jsonrpc_request for a JSON object with an id
\* and for every other body (a JSON array, an empty or undecodable body).
C14_Classified ==
    \A k \in 1..Len(added) :
        LET e == added[k]
            body == ex[e].req_body
            type == interactions[k].type
        IN  /\ ex[e].http_method \in {"GET", "DELETE"} => type = LIFECYCLE
            /\ ex[e].http_method = "POST" =>
                   type = IF isinstance_dict(body) /\ "id" \notin DOMAIN body
                          THEN NOTIFICATION ELSE JSONRPC_REQUEST

\* a POST without id answered with an event stream, recorded as notification
C14_Witness ==
    /\ added = <<1>>
    /\ ex[1].http_method = "POST"
    /\ isinstance_dict(ex[1].req_body)
    /\ "id" \notin DOMAIN ex[1].req_body
    /\ ex[1].outcome = "end"
    /\ interactions[1].type = NOTIFICATION
    /\ interactions[1].request = ex[1].req_body

(***************************************************************************)
(* Cassette files: Cassette's version check (_types.py), load_cassette and *)
(* save_cassette (_utils.py).                                              *)
(*                                                                         *)
(* A version string is the sequence of its characters.  A URL is kept by   *)
(* its parts.  The text of a file is kept by the JSON document it holds,   *)
(* as json_dumps(document); indentation and the trailing newline are not   *)
(* represented.  A CassetteInteraction carries latency_ms here.            *)
(***************************************************************************)

\* s.split(".")[0]: the characters before the first dot, all of s without one
split_0(s) ==
    LET dots == {i \in 1..Len(s) : s[i] = "."}
    IN  IF dots = {} THEN s
        ELSE SubSeq(s, 1, (CHOOSE i \in dots : \A j \in dots : i <= j) - 1)

\* the exception a call raised
Raised(error, detail) == [error |-> error, detail |-> detail]

\* a version check that wants the whole version string to be the expected one
_check_format_version_exact(ver) ==
    IF ver # CASSETTE_FORMAT_VERSION
    THEN Raised("ValueError", [text |-> "Incompatible cassette format version",
                               version |-> ver,
                               expected |-> split_0(CASSETTE_FORMAT_VERSION)])
    ELSE None

\* Cassette._check_format_version: None, or the ValueError it raises
_check_format_version(ver) ==
    IF split_0(ver) # split_0(CASSETTE_FORMAT_VERSION)
    THEN Raised("ValueError", [text |-> "Incompatible cassette format version",
                               version |-> ver,
                               expected |-> split_0(CASSETTE_FORMAT_VERSION)])
    ELSE None

Url(origin, path) == [origin |-> origin, path |-> path]

\* CassetteMetadata with all of its fields
FullMetadata(recorded_at, server_url, protocol_version, server_info) ==
    [recorded_at |-> recorded_at, server_url |-> server_url,
     protocol_version |-> protocol_version, server_info |-> server_info]

\* CassetteInteraction with all of its fields
FullInteraction(i, latency_ms) ==
    [type |-> i.type, request |-> i.request, response |-> i.response,
     response_is_sse |-> i.response_is_sse, response_status |-> i.response_status,
     latency_ms |-> latency_ms, http_method |-> i.http_method,
     http_path |-> i.http_path]

\* the Cassette object
Cassette(ver, meta, ints) == [version |-> ver, metadata |-> meta, interactions |-> ints]

\* a dump that writes the JSON-RPC fields of an interaction only
interaction_dump_jsonrpc(i) ==
    [type |-> i.type, request |-> i.request, response |-> i.response,
     response_is_sse |-> i.response_is_sse, response_status |-> i.response_status,
     latency_ms |-> i.latency_ms]

\* CassetteInteraction.model_dump(mode="json"): every field under its name
interaction_dump(i) ==
    [type |-> i.type, request |-> i.request, response |-> i.response,
     response_is_sse |-> i.response_is_sse, response_status |-> i.response_status,
     latency_ms |-> i.latency_ms, http_method |-> i.http_method,
     http_path |-> i.http_path]

\* Cassette.model_dump(mode="json")
model_dump(c) ==
    [version |-> c.version,
     metadata |-> [recorded_at |-> c.metadata.recorded_at,
                   server_url |-> c.metadata.server_url,
                   protocol_version |-> c.metadata.protocol_version,
                   server_info |-> c.metadata.server_info],
     interactions |-> [p \in 1..Len(c.interactions) |->
                          interaction_dump(c.interactions[p])]]

\* save_cassette: the text written to the file
save_cassette(c) == json_dumps(model_dump(c))

\* a field of a document, or the model's default for it
field_or(doc, key, default) == IF key \in DOMAIN doc THEN doc[key] ELSE default

\* CassetteInteraction.model_validate of one element of "interactions"
interaction_validate(doc) ==
    [type |-> doc.type,
     request |-> field_or(doc, "request", None),
     response |-> field_or(doc, "response", None),
     response_is_sse |-> field_or(doc, "response_is_sse", FALSE),
     response_status |-> field_or(doc, "response_status", 200),
     latency_ms |-> field_or(doc, "latency_ms", 0),
     http_method |-> field_or(doc, "http_method", JNull),
     http_path |-> field_or(doc, "http_path", JNull)]

\* what pydantic rejects in an element of "interactions": no type, or a
\* type that is no InteractionType
interaction_invalid(doc) ==
    IF "type" \in DOMAIN doc THEN doc.type \notin InteractionType ELSE TRUE

\* CassetteMetadata.model_validate; recorded_at defaults to the time of the call
metadata_validate(doc) ==
    FullMetadata(field_or(doc, "recorded_at", "now"),
                 field_or(doc, "server_url", Url("", "")),
                 field_or(doc, "protocol_version", JNull),
                 field_or(doc, "server_info", None))

\* Cassette.model_validate: the Cassette, or the error raised.  The fields
\* are validated first and _check_format_version runs after them.
model_validate(raw) ==
    IF ~isinstance_dict(raw)
    THEN Raised("ValidationError", [text |-> "Input should be a valid dictionary"])
    ELSE LET ver == field_or(raw, "version", CASSETTE_FORMAT_VERSION)
             ints == field_or(raw, "interactions", <<>>)
             meta == field_or(raw, "metadata", EmptyDict)
         IN  IF \E p \in 1..Len(ints) : interaction_invalid(ints[p])
             THEN Raised("ValidationError", [text |-> "Input should be a valid interaction"])
             ELSE IF _check_format_version(ver) # None
             THEN _check_format_version(ver)
             ELSE Cassette(ver, metadata_validate(meta),
                           [p \in 1..Len(ints) |-> interaction_validate(ints[p])])

\* load_cassette: json.loads of the text of the file, then model_validate
load_cassette(f) ==
    IF f = Unused THEN Raised("FileNotFoundError", [text |-> "No such file"])
    ELSE IF f.bytes # "json" THEN Raised("JSONDecodeError", [text |-> "Expecting value"])
    ELSE model_validate(f.value)

is_raised(r) == "error" \in DOMAIN r

(***************************************************************************)
(* Inputs of the file runs                                                 *)
(***************************************************************************)
MaxFileInter == 2

\* "1.0", "1.7", "1", "2.0", "10.0", "0.9" and ""
Versions ==
    {<<"1", ".", "0">>, <<"1", ".", "7">>, <<"1">>, <<"2", ".", "0">>,
     <<"1", "0", ".", "0">>, <<"0", ".", "9">>, <<>>}

\* the versions a Cassette object can be constructed with
ConstructibleVersions == {v \in Versions : _check_format_version(v) = None}

FileMetadatas ==
    {FullMetadata("t0", Url("http://localhost:8000", "/mcp"), JNull, None),
     FullMetadata("t1", Url("", ""), "2025-03-26", [name |-> "srv"])}

FileInteractions ==
    {FullInteraction(CassetteInteraction(JSONRPC_REQUEST,
                         [jsonrpc |-> "2.0", id |-> "i1", method |-> "tools/call",
                          params |-> ParamsAdd],
                         ResultResponse("r1", "first"), TRUE, 200), 12),
     FullInteraction(CassetteInteraction(JSONRPC_REQUEST,
                         [jsonrpc |-> "2.0", id |-> "i2", method |-> "tools/call",
                          params |-> ParamsAdd],
                         None, FALSE, 500), 0),
     FullInteraction(CassetteInteraction(NOTIFICATION,
                         [jsonrpc |-> "2.0", method |-> "notifications/initialized"],
                         None, FALSE, 202), 3),
     FullInteraction(LifecycleInteraction("DELETE", "/mcp", FALSE, 200), 5)}

\* cassette documents written by something other than save_cassette: every
\* version, optional fields left out, no version, an interaction without a
\* valid type
OtherDocuments ==
    {[version |-> v, interactions |-> <<[type |-> NOTIFICATION], [type |-> LIFECYCLE]>>] :
         v \in Versions}
    \cup {[interactions |-> <<[type |-> JSONRPC_REQUEST, response_status |-> 404]>>],
          [version |-> <<"1", ".", "0">>, interactions |-> <<[type |-> "request"]>>],
          [version |-> <<"2", ".", "0">>, interactions |-> <<[request |-> None]>>]}

OtherFiles == {json_dumps(doc) : doc \in OtherDocuments} \cup {json_dumps(JArray), Garbage}

(***************************************************************************)
(* The file runs: a Cassette in memory, the file, and load_cassette        *)
(***************************************************************************)
InitFile ==
    /\ interactions \in UNION {[1..n -> FileInteractions] : n \in 0..MaxFileInter}
    /\ metadata \in FileMetadatas
    /\ version \in ConstructibleVersions
    /\ matcher = create_matcher("method_params", <<>>)
    /\ session_id = "sidA"
    /\ last = NoRequest
    /\ calls = <<>>
    /\ ex = NoExchanges
    /\ clock = 0
    /\ added = <<>>
    /\ handlers = NoHandlers
    /\ twin = NoTwin
    /\ file = Unused
    /\ loaded = Unused
    /\ forwarded = Unused
    /\ verify = Unused
    /\ compared = Unused
    /\ scrubbed = Unused
    /\ server = Unused

\* save_cassette(cassette, path)
SaveCassette ==
    /\ file' = save_cassette(Cassette(version, metadata, interactions))
    /\ UNCHANGED <<interactions, metadata, matcher, session_id, last, calls, ex, clock,
                   added, handlers, twin, version, loaded, forwarded, verify, compared,
                   scrubbed, server>>

\* the file at path comes from elsewhere
OtherFile(text) ==
    /\ file' = text
    /\ UNCHANGED <<interactions, metadata, matcher, session_id, last, calls, ex, clock,
                   added, handlers, twin, version, loaded, forwarded, verify, compared,
                   scrubbed, server>>

\* load_cassette(path)
LoadCassette ==
    /\ loaded' = [path |-> file, ret |-> load_cassette(file)]
    /\ UNCHANGED <<interactions, metadata, matcher, session_id, last, calls, ex, clock,
                   added, handlers, twin, version, file, forwarded, verify, compared,
                   scrubbed, server>>

NextFile ==
    \/ SaveCassette
    \/ \E text \in OtherFiles : OtherFile(text)
    \/ LoadCassette

SpecFile == InitFile /\ [][NextFile]_vars

(***************************************************************************)
(* Properties of the file runs                                             *)
(***************************************************************************)
\* the cassette in memory
TheCassette == Cassette(version, metadata, interactions)

\* the document of the file that was loaded holds a cassette but for its
\* version: an object whose interactions all carry an InteractionType
LoadedDocument ==
    /\ loaded # Unused
    /\ loaded.path # Unused
    /\ loaded.path.bytes = "json"
    /\ isinstance_dict(loaded.path.value)
    /\ "interactions" \in DOMAIN loaded.path.value
    /\ \A p \in 1..Len(loaded.path.value.interactions) :
           /\ "type" \in DOMAIN loaded.path.value.interactions[p]
           /\ loaded.path.value.interactions[p].type \in InteractionType

\* the version string is "1" or starts with "1."
HasMajorOne(ver) ==
    /\ Len(ver) >= 1
    /\ ver[1] = "1"
    /\ Len(ver) >= 2 => ver[2] = "."

HOP_BY_HOP ==
    {"connection", "keep-alive", "proxy-authenticate", "proxy-authorization",
     "te", "trailers", "transfer-encoding", "upgrade"}

\* header names as a caller or an upstream may spell them
HeaderNames ==
    {"Connection", "Keep-Alive", "proxy-authenticate", "Proxy-Authorization",
     "TE", "trailers", "Transfer-Encoding", "UPGRADE",
     "host", "Host", "content-type", "x-upgrade"}

\* str.lower() on the names above
lower(key) ==
    CASE key = "Connection" -> "connection"
      [] key = "Keep-Alive" -> "keep-alive"
      [] key = "Proxy-Authorization" -> "proxy-authorization"
      [] key = "TE" -> "te"
      [] key = "Transfer-Encoding" -> "transfer-encoding"
      [] key = "UPGRADE" -> "upgrade"
      [] key = "Host" -> "host"
      [] OTHER -> key

\* _forward_headers that looks the name up as it is spelled
_forward_headers_exact(headers, target_host) ==
    [key \in {k \in DOMAIN headers : k \notin HOP_BY_HOP} |->
        IF key = "host" THEN target_host ELSE headers[key]]

\* _forward_headers: hop-by-hop names are skipped, Host is rewritten, the
\* rest is copied
_forward_headers(headers, target_host) ==
    [key \in {k \in DOMAIN headers : lower(k) \notin HOP_BY_HOP} |->
        IF lower(key) = "host" THEN target_host ELSE headers[key]]

MaxHeaders == 3

\* the value a header arrives with
HeaderValue(key) == <<"value of", key>>

\* the mappings handed to _forward_headers
HeaderMappings ==
    {[key \in names |-> HeaderValue(key)] :
        names \in {n \in SUBSET HeaderNames : Cardinality(n) <= MaxHeaders}}

\* httpx.URL(target_url).host
TargetHosts == {<<"value of", "upstream.example">>}

InitForward ==
    /\ interactions = <<>>
    /\ metadata = CassetteMetadata
    /\ matcher = create_matcher("method_params", <<>>)
    /\ session_id = "sidA"
    /\ last = NoRequest
    /\ calls = <<>>
    /\ ex = NoExchanges
    /\ clock = 0
    /\ ToolsIdle
    /\ added = <<>>
    /\ handlers = NoHandlers
    /\ twin = NoTwin

\* the proxy forwards the headers of a request to the upstream
ForwardRequest(headers, target_host) ==
    /\ forwarded' = [direction |-> "request", headers |-> headers,
                     out |-> _forward_headers(headers, target_host)]
    /\ UNCHANGED <<interactions, metadata, matcher, session_id, last, calls, ex, clock,
                   added, handlers, twin, version, file, loaded, verify, compared,
                   scrubbed, server>>

\* the proxy forwards the headers of the upstream's response to the caller
ForwardResponse(headers, target_host) ==
    /\ forwarded' = [direction |-> "response", headers |-> headers,
                     out |-> _forward_headers(headers, target_host)]
    /\ UNCHANGED <<interactions, metadata, matcher, session_id, last, calls, ex, clock,
                   added, handlers, twin, version, file, loaded, verify, compared,
                   scrubbed, server>>

NextForward ==
    \E headers \in HeaderMappings, target_host \in TargetHosts :
        \/ ForwardRequest(headers, target_host)
        \/ ForwardResponse(headers, target_host)

SpecForward == InitForward /\ [][NextForward]_vars

\* the spellings of the hop-by-hop names among HeaderNames
HopSpellings ==
    {"Connection", "Keep-Alive", "proxy-authenticate", "Proxy-Authorization",
     "TE", "trailers", "Transfer-Encoding", "UPGRADE"}

JList(items) == [json_kind |-> "array", items |-> items]
JStr(text) == [json_kind |-> "string", text |-> text]
JNum(n) == [json_kind |-> "number", n |-> n]
Plain(chars) == [chars |-> chars]
JsonText(v, form) == [json |-> v, form |-> form]

\* type(v).__name__
py_type(v) ==
    IF isinstance_dict(v) THEN "dict"
    ELSE CASE v.json_kind = "array" -> "list"
           [] v.json_kind = "string" -> "str"
           [] v.json_kind = "number" -> "int"
           [] OTHER -> "NoneType"

_VOLATILE_KEYS == {"id", "_meta"}

\* f"{_current_path}.{k}" and f"{_current_path}[{i}]"
key_path(path, k) == path \o "." \o k
index_path(path, i) == path \o "[" \o ToString(i) \o "]"

RECURSIVE _strip_volatile(_, _, _, _)
_strip_volatile(obj, ignore_fields, ignore_paths, _current_path) ==
    IF isinstance_dict(obj)
    THEN LET kept == {k \in DOMAIN obj :
                         /\ k \notin _VOLATILE_KEYS
                         /\ k \notin ignore_fields
                         /\ key_path(_current_path, k) \notin ignore_paths}
         IN  [k \in kept |-> _strip_volatile(obj[k], ignore_fields, ignore_paths,
                                             key_path(_current_path, k))]
    ELSE IF obj.json_kind = "array"
    THEN JList([i \in 1..Len(obj.items) |->
                   _strip_volatile(obj.items[i], ignore_fields, ignore_paths,
                                   index_path(_current_path, i - 1))])
    ELSE obj

\* the keys of the values below, in the order sorted() gives them
KeyOrder ==
    <<"_meta", "a", "a.b", "b", "id", "items", "jsonrpc", "result", "text", "ts">>

sorted(keys) == SelectSeq(KeyOrder, LAMBDA k : k \in keys)

RECURSIVE Concat(_)
Concat(seqs) == IF seqs = <<>> THEN <<>> ELSE Head(seqs) \o Concat(Tail(seqs))

DiffLine(path, what, expected, actual) ==
    [path |-> path, what |-> what, expected |-> expected, actual |-> actual]

\* a comparison of scalars that finds any two of them unequal
scalars_differ_always(expected, actual) == TRUE

\* expected != actual
scalars_differ(expected, actual) == expected # actual

\* a comparison that never reads a string as JSON
json_in_string_never(expected, actual) == FALSE

\* both values are strings, json.loads reads both, and both hold a dict or a list
json_in_string(expected, actual) ==
    /\ expected.json_kind = "string"
    /\ actual.json_kind = "string"
    /\ "json" \in DOMAIN expected.text
    /\ "json" \in DOMAIN actual.text
    /\ py_type(expected.text.json) \in {"dict", "list"}
    /\ py_type(actual.text.json) \in {"dict", "list"}

RECURSIVE _deep_diff(_, _, _)
_deep_diff(expected, actual, path) ==
    IF py_type(expected) # py_type(actual)
    THEN <<DiffLine(path, "type", [py_type |-> py_type(expected)],
                    [py_type |-> py_type(actual)]),
           DiffLine(path, "expected:", expected, None),
           DiffLine(path, "actual:", None, actual)>>
    ELSE IF isinstance_dict(expected)
    THEN LET keys == sorted(DOMAIN expected \cup DOMAIN actual)
             entry(key) ==
                 IF key \notin DOMAIN actual
                 THEN <<DiffLine(key_path(path, key), "missing in actual", None, None),
                        DiffLine(key_path(path, key), "expected:", expected[key], None)>>
                 ELSE IF key \notin DOMAIN expected
                 THEN <<DiffLine(key_path(path, key), "unexpected key in actual", None, None),
                        DiffLine(key_path(path, key), "actual:", None, actual[key])>>
                 ELSE _deep_diff(expected[key], actual[key], key_path(path, key))
         IN  Concat([i \in 1..Len(keys) |-> entry(keys[i])])
    ELSE IF expected.json_kind = "array"
    THEN LET n == IF Len(expected.items) < Len(actual.items)
                  THEN Len(expected.items) ELSE Len(actual.items)
         IN  (IF Len(expected.items) # Len(actual.items)
              THEN <<DiffLine(path, "list length", JNum(Len(expected.items)),
                              JNum(Len(actual.items)))>>
              ELSE <<>>)
             \o Concat([i \in 1..n |->
                           _deep_diff(expected.items[i], actual.items[i],
                                      index_path(path, i - 1))])
    ELSE IF scalars_differ(expected, actual)
    THEN IF json_in_string(expected, actual)
         THEN _deep_diff(expected.text.json, actual.text.json, path)
         ELSE <<DiffLine(path, "!=", expected, actual)>>
    ELSE <<>>

(***************************************************************************)
(* Inputs of the comparison runs                                           *)
(***************************************************************************)
MaxKeys == 2
MaxList == 2

\* texts of strings: two that are not JSON, JSON texts of objects and of
\* arrays, one value in two spellings, and JSON texts of scalars
Texts ==
    {Plain("hello"), Plain("world"),
     JsonText([a |-> JNum(1)], "compact"), JsonText([a |-> JNum(1)], "spaced"),
     JsonText([a |-> JNum(2)], "compact"),
     JsonText(JList(<<JNum(1), JNum(2)>>), "compact"),
     JsonText(JList(<<JNum(1), JNum(3)>>), "compact"),
     JsonText(JNum(5), "compact"), JsonText(JNum(6), "compact")}

\* the value a key holds one level down
InnerChoices(k) ==
    CASE k = "id" -> {JNum(7)}
      [] k = "ts" -> {JNum(9)}
      [] OTHER -> {JNum(1), JNum(2)}

\* objects one level down: any of the keys id, b and ts
InnerObjects ==
    UNION {{f \in [keys -> {JNum(1), JNum(2), JNum(7), JNum(9)}] :
               \A k \in keys : f[k] \in InnerChoices(k)} :
           keys \in SUBSET {"id", "b", "ts"}}

\* the elements of lists
Elements == {[b |-> JNum(2), ts |-> JNum(9)], [id |-> JNum(7), b |-> JNum(1)]}

Lists == {JList(items) : items \in UNION {[1..n -> Elements] : n \in 0..MaxList}}

\* the value a key of the outer object holds; "a.b" is one key
OuterChoices(k) ==
    CASE k = "id" -> {JNum(7)}
      [] k = "_meta" -> {[b |-> JNum(1)]}
      [] k = "a" -> InnerObjects
      [] k = "a.b" -> {JNum(1), JNum(2)}
      [] k = "items" -> Lists
      [] OTHER -> {JStr(t) : t \in Texts}

OuterKeys == {"id", "_meta", "a", "a.b", "items", "text"}

OuterValues == UNION {OuterChoices(k) : k \in OuterKeys}

OuterObjects ==
    UNION {{f \in [keys -> OuterValues] : \A k \in keys : f[k] \in OuterChoices(k)} :
           keys \in {ks \in SUBSET OuterKeys : Cardinality(ks) <= MaxKeys}}

\* the JSON values handed to the verifier
JsonValues == OuterObjects \cup Lists \cup {JStr(t) : t \in Texts} \cup {None}

\* values a live server answers with where the recording holds another one
LiveValues ==
    {[a |-> [b |-> JNum(1)]], [a |-> JList(<<>>)], None,
     [items |-> JList(<<[b |-> JNum(1)]>>), text |-> JStr(Plain("hello"))]}
    \cup {JStr(t) : t \in Texts}
    \cup {[text |-> JStr(t)] : t \in Texts}

\* the --ignore-fields and --ignore-paths a run is given
IgnoreChoices ==
    {[ignore_fields |-> {}, ignore_paths |-> {}],
     [ignore_fields |-> {"ts"}, ignore_paths |-> {}],
     [ignore_fields |-> {}, ignore_paths |-> {"$.a.b"}],
     [ignore_fields |-> {"ts"}, ignore_paths |-> {"$.items[0].b"}]}

(***************************************************************************)
(* The comparison runs: verify_cassette's three calls on one recorded      *)
(* response and one live response                                          *)
(***************************************************************************)
InitCompare ==
    /\ interactions = <<>>
    /\ metadata = CassetteMetadata
    /\ matcher = create_matcher("method_params", <<>>)
    /\ session_id = "sidA"
    /\ last = NoRequest
    /\ calls = <<>>
    /\ ex = NoExchanges
    /\ clock = 0
    /\ added = <<>>
    /\ handlers = NoHandlers
    /\ twin = NoTwin
    /\ version = CASSETTE_FORMAT_VERSION
    /\ file = Unused
    /\ loaded = Unused
    /\ forwarded = Unused
    /\ verify = Unused
    /\ scrubbed = Unused
    /\ \E recorded \in JsonValues, ignore \in IgnoreChoices :
           \E live \in {recorded} \cup LiveValues :
               compared = [pc |-> "sent", response |-> recorded, actual_body |-> live,
                           ignore_fields |-> ignore.ignore_fields,
                           ignore_paths |-> ignore.ignore_paths,
                           expected_clean |-> None, actual_clean |-> None,
                           diff_lines |-> <<>>]
    /\ server = Unused

\* expected_clean = _strip_volatile(interaction.response, ...)
StripExpected ==
    /\ compared.pc = "sent"
    /\ compared' = [compared EXCEPT
           !.pc = "expected",
           !.expected_clean = _strip_volatile(compared.response, compared.ignore_fields,
                                              compared.ignore_paths, "$")]
    /\ UNCHANGED <<interactions, metadata, matcher, session_id, last, calls, ex, clock,
                   added, handlers, twin, version, file, loaded, forwarded, verify,
                   scrubbed, server>>

\* actual_clean = _strip_volatile(actual_body, ...)
StripActual ==
    /\ compared.pc = "expected"
    /\ compared' = [compared EXCEPT
           !.pc = "actual",
           !.actual_clean = _strip_volatile(compared.actual_body, compared.ignore_fields,
                                            compared.ignore_paths, "$")]
    /\ UNCHANGED <<interactions, metadata, matcher, session_id, last, calls, ex, clock,
                   added, handlers, twin, version, file, loaded, forwarded, verify,
                   scrubbed, server>>

\* diff_lines = _deep_diff(expected_clean, actual_clean)
DeepDiff ==
    /\ compared.pc = "actual"
    /\ compared' = [compared EXCEPT
           !.pc = "diffed",
           !.diff_lines = _deep_diff(compared.expected_clean, compared.actual_clean, "$")]
    /\ UNCHANGED <<interactions, metadata, matcher, session_id, last, calls, ex, clock,
                   added, handlers, twin, version, file, loaded, forwarded, verify,
                   scrubbed, server>>

NextCompare ==
    \/ StripExpected
    \/ StripActual
    \/ DeepDiff

SpecCompare == InitCompare /\ [][NextCompare]_vars

(***************************************************************************)
(* Properties of the comparison runs                                       *)
(***************************************************************************)
\* a step from the root of a value: into a key, or to an element of a list
KeySeg(k) == [key |-> k]
IndexSeg(i) == [index |-> i]

\* the position a dot-path denotes: the keys and indexes it names, from $
Denoted(path) ==
    CASE path = "$.a.b" -> <<KeySeg("a"), KeySeg("b")>>
      [] path = "$.items[0].b" -> <<KeySeg("items"), IndexSeg(0), KeySeg("b")>>

\* obj without the keys of the given names, at any depth, and without the
\* keys at the given positions
RECURSIVE StripAt(_, _, _, _)
StripAt(obj, names, positions, here) ==
    IF isinstance_dict(obj)
    THEN [k \in {key \in DOMAIN obj : /\ key \notin names
                                        /\ Append(here, KeySeg(key)) \notin positions} |->
             StripAt(obj[k], names, positions, Append(here, KeySeg(k)))]
    ELSE IF obj.json_kind = "array"
    THEN JList([i \in 1..Len(obj.items) |->
                   StripAt(obj.items[i], names, positions, Append(here, IndexSeg(i - 1)))])
    ELSE obj

\* C26: the normalized value is the value without the keys named id, _meta
\* or in ignore_fields, at any depth, and without the keys at the positions
\* the ignore_paths entries denote; every other key, value and list element
\* is in place.
C26_ExactPositions ==
    compared.pc # "sent" =>
        compared.expected_clean =
            StripAt(compared.response, {"id", "_meta"} \cup compared.ignore_fields,
                    {Denoted(path) : path \in compared.ignore_paths}, <<>>)

\* C27: the diff of a normalized value against itself is empty.
C27_SelfDiffEmpty ==
    (compared.pc = "diffed" /\ compared.response = compared.actual_body) =>
        compared.diff_lines = <<>>

\* an object with a list of two objects and a string holding a JSON text,
\* keys stripped from it, was compared with itself
C27_Witness ==
    /\ compared.pc = "diffed"
    /\ compared.response = compared.actual_body
    /\ isinstance_dict(compared.response)
    /\ DOMAIN compared.response = {"items", "text"}
    /\ Len(compared.response.items.items) = 2
    /\ "json" \in DOMAIN compared.response.text.text
    /\ compared.expected_clean # compared.response

\* the two values compared are strings at the root, or objects whose one
\* key, text, holds a string
StringsAt(at) ==
    IF at = "$"
    THEN /\ py_type(compared.response) = "str"
         /\ py_type(compared.actual_body) = "str"
    ELSE /\ isinstance_dict(compared.response)
         /\ isinstance_dict(compared.actual_body)
         /\ DOMAIN compared.response = {"text"}
         /\ DOMAIN compared.actual_body = {"text"}

StringAt(v, at) == IF at = "$" THEN v ELSE v.text

\* the text is valid JSON that encodes an object or an array
Structured(text) == "json" \in DOMAIN text /\ py_type(text.json) \in {"dict", "list"}

\* C28: the diff of two strings that both hold JSON texts of objects or
\* arrays is the diff of the values they parse to, at the same path; when
\* one of them is not JSON or parses to a scalar the strings are compared as
\* strings: no line when they are equal, one inequality line otherwise.
C28_JsonInString ==
    compared.pc = "diffed" =>
        \A at \in {"$", "$.text"} :
            StringsAt(at) =>
                LET e == StringAt(compared.response, at)
                    a == StringAt(compared.actual_body, at)
                IN  IF Structured(e.text) /\ Structured(a.text)
                    THEN compared.diff_lines = _deep_diff(e.text.json, a.text.json, at)
                    ELSE compared.diff_lines =
                             IF e = a THEN <<>> ELSE <<DiffLine(at, "!=", e, a)>>

\* the texts of [1, 2] and [1, 3] under the key text: one line, at the
\* second element of the parsed arrays
C28_Witness ==
    /\ compared.pc = "diffed"
    /\ StringsAt("$.text")
    /\ compared.response.text.text = JsonText(JList(<<JNum(1), JNum(2)>>), "compact")
    /\ compared.actual_body.text.text = JsonText(JList(<<JNum(1), JNum(3)>>), "compact")
    /\ compared.diff_lines = <<DiffLine("$.text[1]", "!=", JNum(2), JNum(3))>>

(***************************************************************************)
(* verifier.py: _send_request and the loop of verify_cassette.  A session  *)
(* id is a string and JNull is Python's None; a response without the       *)
(* mcp-session-id header has JNull in its place.  The body of a live       *)
(* response is JSON text, undecodable bytes, or the lines of an SSE body.  *)
(***************************************************************************)
\* truthiness of a str-or-None value
truthy_str(v) == v # JNull /\ v # ""

\* the headers _send_request puts on a request
request_headers(sid) ==
    IF truthy_str(sid)
    THEN [k \in {"content-type", "accept", "mcp-session-id"} |->
             IF k = "content-type" THEN "application/json"
             ELSE IF k = "accept" THEN "application/json, text/event-stream"
             ELSE sid]
    ELSE [k \in {"content-type", "accept"} |->
             IF k = "content-type" THEN "application/json"
             ELSE "application/json, text/event-stream"]

\* the request _send_request sends for an interaction
request_for(interaction, sid) ==
    IF interaction.type = LIFECYCLE
    THEN [method |-> IF truthy_str(interaction.http_method)
                     THEN interaction.http_method ELSE "DELETE",
          headers |-> request_headers(sid), content |-> EmptyBytes]
    ELSE [method |-> "POST", headers |-> request_headers(sid),
          content |-> IF truthy(interaction.request)
                      THEN json_dumps(interaction.request) ELSE EmptyBytes]

\* a session id taken from the header alone, None without the header
new_sid_header_only(resp, sid) == resp.session_header

\* resp.headers.get("mcp-session-id", session_id)
new_sid(resp, sid) == IF resp.session_header # JNull THEN resp.session_header ELSE sid

\* parse_sse_response: the payload of the first data: line that decodes
RECURSIVE parse_sse_response(_)
parse_sse_response(lines) ==
    IF lines = <<>> THEN None
    ELSE LET line == Head(lines)
         IN  IF line.kind = "data" /\ line.payload # EmptyBytes
                /\ line.payload.bytes = "json"
             THEN line.payload.value
             ELSE parse_sse_response(Tail(lines))

\* the body _send_request returns for a response
response_body(interaction, resp) ==
    IF interaction.type = LIFECYCLE THEN None
    ELSE IF resp.content_type = "text/event-stream"
    THEN parse_sse_response(resp.content.lines)
    ELSE IF resp.content # EmptyBytes /\ resp.content.bytes = "json" THEN resp.content.value
    ELSE None

InteractionResult(index, method, passed, expected, actual, diff) ==
    [index |-> index, method |-> method, passed |-> passed, expected |-> expected,
     actual |-> actual, diff |-> diff]

\* a notification that passes whatever status comes back
notification_passed_always(interaction, status) == TRUE

\* passed = status == interaction.response_status
notification_passed(interaction, status) == status = interaction.response_status

\* jsonrpc_method or http_method or "unknown"
method_name(interaction) ==
    IF truthy_str(jsonrpc_method(interaction)) THEN jsonrpc_method(interaction)
    ELSE IF truthy_str(interaction.http_method) THEN interaction.http_method
    ELSE "unknown"

\* the InteractionResult verify_cassette appends for the idx-th interaction
\* and the response it got
interaction_result(idx, interaction, resp, ignore_fields, ignore_paths) ==
    IF interaction.type = LIFECYCLE
    THEN InteractionResult(idx, <<interaction.http_method, interaction.http_path>>,
                           TRUE, None, None, <<>>)
    ELSE IF interaction.type = NOTIFICATION
    THEN LET passed == notification_passed(interaction, resp.status_code)
         IN  InteractionResult(idx, <<method_name(interaction)>>, passed, None, None,
                 IF passed THEN <<>>
                 ELSE <<DiffLine("status", "expected, got",
                                 JNum(interaction.response_status),
                                 JNum(resp.status_code))>>)
    ELSE LET actual_body == response_body(interaction, resp)
             expected_clean == _strip_volatile(interaction.response, ignore_fields,
                                               ignore_paths, "$")
             actual_clean == _strip_volatile(actual_body, ignore_fields, ignore_paths, "$")
             diff_lines == _deep_diff(expected_clean, actual_clean, "$")
         IN  InteractionResult(idx, <<method_name(interaction), tool_name(interaction)>>,
                               diff_lines = <<>>, interaction.response, actual_body,
                               diff_lines)

(***************************************************************************)
(* Inputs of the verify runs                                               *)
(***************************************************************************)
MaxVerify == 3

\* the recorded response of tools/call, and bodies a live server gives
RecordedResult == [jsonrpc |-> JStr(Plain("2.0")), id |-> JNum(7), result |-> [b |-> JNum(1)]]
SameResult == [jsonrpc |-> JStr(Plain("2.0")), id |-> JNum(8), result |-> [b |-> JNum(1)]]
StampedResult ==
    [jsonrpc |-> JStr(Plain("2.0")), id |-> JNum(8), result |-> [b |-> JNum(1), ts |-> JNum(9)]]
OtherResult == [jsonrpc |-> JStr(Plain("2.0")), id |-> JNum(7), result |-> [b |-> JNum(2)]]

VerifyInteractions ==
    {CassetteInteraction(JSONRPC_REQUEST,
         [jsonrpc |-> "2.0", id |-> "r1", method |-> "tools/call", params |-> ParamsAdd],
         RecordedResult, FALSE, 200),
     CassetteInteraction(JSONRPC_REQUEST,
         [jsonrpc |-> "2.0", id |-> "r2", method |-> "ping"], None, TRUE, 200),
     CassetteInteraction(NOTIFICATION,
         [jsonrpc |-> "2.0", method |-> "notifications/initialized"], None, FALSE, 202),
     LifecycleInteraction("DELETE", "/mcp", FALSE, 200)}

LiveResponse(status_code, session_header, ctype, content) ==
    [status_code |-> status_code, session_header |-> session_header,
     content_type |-> ctype, content |-> content]

\* what the live server answers: with and without the session header, with
\* several statuses, with bodies that agree with the recording and not
LiveResponses ==
    {LiveResponse(200, "s1", "application/json", json_dumps(SameResult)),
     LiveResponse(500, "s2", "application/json", json_dumps(SameResult)),
     LiveResponse(202, JNull, "application/json", EmptyBytes),
     LiveResponse(200, JNull, "application/json", json_dumps(OtherResult)),
     LiveResponse(200, JNull, "text/event-stream",
                  [bytes |-> "sse",
                   lines |-> <<OtherLine, DataLine(json_dumps(StampedResult))>>]),
     LiveResponse(200, JNull, "application/json", Garbage)}

(***************************************************************************)
(* The verify runs: verify_cassette over a cassette, one _send_request at  *)
(* a time                                                                  *)
(***************************************************************************)
InitVerify ==
    /\ interactions \in UNION {[1..n -> VerifyInteractions] : n \in 0..MaxVerify}
    /\ metadata = CassetteMetadata
    /\ matcher = create_matcher("method_params", <<>>)
    /\ session_id = "sidA"
    /\ last = NoRequest
    /\ calls = <<>>
    /\ ex = NoExchanges
    /\ clock = 0
    /\ added = <<>>
    /\ handlers = NoHandlers
    /\ twin = NoTwin
    /\ version = CASSETTE_FORMAT_VERSION
    /\ file = Unused
    /\ loaded = Unused
    /\ forwarded = Unused
    /\ compared = Unused
    /\ scrubbed = Unused
    /\ verify = [pc |-> "loop", session_id |-> JNull, ignore_fields |-> {"ts"},
                 ignore_paths |-> {}, requests |-> <<>>, responses |-> <<>>,
                 results |-> <<>>]
    /\ server = Unused

\* _send_request up to its await: the request for the next interaction goes out
SendRequest ==
    /\ verify.pc = "loop"
    /\ Len(verify.results) < Len(interactions)
    /\ verify' = [verify EXCEPT
           !.pc = "awaiting",
           !.requests = Append(@, request_for(interactions[Len(verify.results) + 1],
                                              verify.session_id))]
    /\ UNCHANGED <<interactions, metadata, matcher, session_id, last, calls, ex, clock,
                   added, handlers, twin, version, file, loaded, forwarded, compared,
                   scrubbed, server>>

\* the response arrives: _send_request returns, the result is appended
ReceiveResponse(resp) ==
    /\ verify.pc = "awaiting"
    /\ LET idx == Len(verify.results) + 1
       IN  verify' = [verify EXCEPT
               !.pc = "loop",
               !.session_id = new_sid(resp, verify.session_id),
               !.responses = Append(@, resp),
               !.results = Append(@, interaction_result(idx, interactions[idx], resp,
                                          verify.ignore_fields, verify.ignore_paths))]
    /\ UNCHANGED <<interactions, metadata, matcher, session_id, last, calls, ex, clock,
                   added, handlers, twin, version, file, loaded, forwarded, compared,
                   scrubbed, server>>

\* the request fails in httpx: the exception leaves verify_cassette
TransportError ==
    /\ verify.pc = "awaiting"
    /\ verify' = [verify EXCEPT !.pc = "raised"]
    /\ UNCHANGED <<interactions, metadata, matcher, session_id, last, calls, ex, clock,
                   added, handlers, twin, version, file, loaded, forwarded, compared,
                   scrubbed, server>>

\* an update test that leaves out "r.actual is not None"
should_update_failed(r) == ~r.passed

\* not r.passed and r.actual is not None
should_update(r) == ~r.passed /\ r.actual # None

\* the update loop of the verify command: for each result in turn,
\* loaded.interactions[r.index - 1].response = r.actual
RECURSIVE update_responses(_, _)
update_responses(ints, results) ==
    IF results = <<>> THEN ints
    ELSE LET r == Head(results)
         IN  update_responses(
                 IF should_update(r)
                 THEN [ints EXCEPT ![r.index] = [@ EXCEPT !.response = r.actual]]
                 ELSE ints,
                 Tail(results))

\* result.failed of the VerifyResult
failed_count(results) == Cardinality({k \in 1..Len(results) : ~results[k].passed})

\* the verify command after run_verify has returned: with --update and at
\* least one failure the responses are replaced in the loaded cassette and
\* the cassette is saved.  loaded is the Cassette object of the command when
\* it ends, interactions its state when verify_cassette was called.
Report(update) ==
    /\ verify.pc = "loop"
    /\ Len(verify.results) = Len(interactions)
    /\ verify' = [verify EXCEPT !.pc = "done"]
    /\ loaded' = IF update /\ failed_count(verify.results) > 0
                 THEN [update |-> update,
                       interactions |-> update_responses(interactions, verify.results),
                       saved |-> TRUE]
                 ELSE [update |-> update, interactions |-> interactions, saved |-> FALSE]
    /\ UNCHANGED <<interactions, metadata, matcher, session_id, last, calls, ex, clock,
                   added, handlers, twin, version, file, forwarded, compared, scrubbed,
                   server>>

NextVerify ==
    \/ SendRequest
    \/ \E resp \in LiveResponses : ReceiveResponse(resp)
    \/ TransportError
    \/ \E update \in BOOLEAN : Report(update)

SpecVerify == InitVerify /\ [][NextVerify]_vars

(***************************************************************************)
(* Properties of the verify runs                                           *)
(***************************************************************************)
\* the body of a live response as the verifier reads it
LiveBody(resp) ==
    IF resp.content_type = "text/event-stream"
    THEN LET data == SelectSeq(resp.content.lines,
                               LAMBDA l : l.kind = "data" /\ l.payload # EmptyBytes
                                          /\ l.payload.bytes = "json")
         IN  IF data = <<>> THEN None ELSE data[1].payload.value
    ELSE IF resp.content = EmptyBytes \/ resp.content.bytes # "json" THEN None
    ELSE resp.content.value

\* C25: every lifecycle interaction is marked passed; a notification is
\* marked passed exactly when the live status is the recorded one; a
\* jsonrpc_request is marked passed exactly when the diff of the normalized
\* recorded response and the normalized live body is empty.
C25_PassedRule ==
    \A k \in 1..Len(verify.results) :
        LET interaction == interactions[k]
            resp == verify.responses[k]
            passed == verify.results[k].passed
        IN  /\ verify.results[k].index = k
            /\ interaction.type = LIFECYCLE => passed
            /\ interaction.type = NOTIFICATION =>
                   (passed <=> resp.status_code = interaction.response_status)
            /\ interaction.type = JSONRPC_REQUEST =>
                   (passed <=>
                       _deep_diff(_strip_volatile(interaction.response, verify.ignore_fields,
                                                  verify.ignore_paths, "$"),
                                  _strip_volatile(LiveBody(resp), verify.ignore_fields,
                                                  verify.ignore_paths, "$"),
                                  "$") = <<>>)

\* a lifecycle interaction answered 500 passed, a notification answered 500
\* failed, and a request whose live body differs in id and in an ignored
\* field only passed
C25_Witness ==
    /\ Len(verify.results) = 3
    /\ interactions[1].type = LIFECYCLE
    /\ verify.responses[1].status_code = 500
    /\ verify.results[1].passed
    /\ interactions[2].type = NOTIFICATION
    /\ verify.responses[2].status_code = 500
    /\ ~verify.results[2].passed
    /\ interactions[3].type = JSONRPC_REQUEST
    /\ verify.responses[3].content_type = "text/event-stream"
    /\ verify.results[3].passed

\* the responses before the k-th request that carried the session header
WithHeaderBefore(k) == {j \in 1..(k - 1) : verify.responses[j].session_header # JNull}

C31_UpdateFrame ==
    verify.pc = "done" =>
        /\ Len(loaded.interactions) = Len(interactions)
        /\ \A p \in 1..Len(interactions) :
               LET before == interactions[p]
                   after == loaded.interactions[p]
                   live == LiveBody(verify.responses[p])
                   failed == ~verify.results[p].passed
               IN  /\ [after EXCEPT !.response = before.response] = before
                   /\ after.response # before.response =>
                          /\ loaded.update
                          /\ failed
                          /\ live # None
                          /\ after.response = live
                   /\ loaded.update /\ before.type = JSONRPC_REQUEST /\ failed
                          /\ live # None => after.response = live
        /\ ~loaded.update => loaded.interactions = interactions /\ ~loaded.saved

\* --update was given; the first request failed against another result and
\* has it as its response now; the second request failed against a body
\* that does not decode and kept its response; the notification failed
\* against status 500 with a JSON body and kept its null response
C31_Witness ==
    /\ verify.pc = "done"
    /\ loaded.update
    /\ loaded.saved
    /\ Len(interactions) = 3
    /\ interactions[1].response = RecordedResult
    /\ loaded.interactions[1].response = OtherResult
    /\ interactions[2].response = RecordedResult
    /\ verify.responses[2].content = Garbage
    /\ ~verify.results[2].passed
    /\ loaded.interactions[2].response = RecordedResult
    /\ interactions[3].type = NOTIFICATION
    /\ verify.responses[3].status_code = 500
    /\ ~verify.results[3].passed
    /\ loaded.interactions[3] = interactions[3]

(***************************************************************************)
(* Scrubbing: scrub_cassette(                                              *)
(* Strings are texts of the listed vocabulary; a pattern is the literal    *)
(* it matches.  Of the keys of a body, "text" and "name" hold strings and  *)
(* the others hold objects, null or arrays.                                *)
(***************************************************************************)
_PLACEHOLDER == "[REDACTED]"

\* os.environ: MY_SECRET is set, EMPTY_VAR is set to "", MISSING_VAR is not set
environ == [name \in {"MY_SECRET", "EMPTY_VAR"} |->
               IF name = "MY_SECRET" THEN "sk-123" ELSE ""]

\* re.compile(raw) raises re.error
re_error(raw) == raw = "("

\* pat.sub(_PLACEHOLDER, value): every match of the pattern in the value
\* replaced by the placeholder
pat_sub(pat, value) ==
    CASE value = pat -> _PLACEHOLDER
      [] pat = "sk-123" /\ value = "token sk-123" -> "token [REDACTED]"
      [] pat = "sk-123" /\ value = "/sk-123" -> "/[REDACTED]"
      [] pat = "add" /\ value = "added" -> "[REDACTED]ed"
      [] OTHER -> value

\* _redact_url_path: a URL without a path, or with the path "/", is returned
\* as it is
_redact_url_path(url) ==
    IF url.path = "" \/ url.path = "/"
    THEN url
    ELSE Url(url.origin, "/" \o _PLACEHOLDER)

\* the values of the variables that are set and not empty, in the order given
RECURSIVE env_patterns(_)
env_patterns(env_vars) ==
    IF env_vars = <<>> THEN <<>>
    ELSE LET var_name == Head(env_vars)
         IN  IF var_name \notin DOMAIN environ
             THEN env_patterns(Tail(env_vars))
             ELSE IF environ[var_name] = ""
             THEN env_patterns(Tail(env_vars))
             ELSE <<environ[var_name]>> \o env_patterns(Tail(env_vars))

\* _compile_patterns: the environment values, then the patterns that compile
_compile_patterns(env_vars, regex_patterns) ==
    env_patterns(env_vars) \o SelectSeq(regex_patterns, LAMBDA raw : ~re_error(raw))

\* _redact_string: the patterns applied one after the other
RECURSIVE _redact_string(_, _)
_redact_string(value, patterns) ==
    IF patterns = <<>> THEN value
    ELSE _redact_string(pat_sub(Head(patterns), value), Tail(patterns))

\* _redact_string applied to the text of a URL
redact_url(url, patterns) ==
    Url(_redact_string(url.origin, patterns), _redact_string(url.path, patterns))

STRUCTURAL_KEYS == {"method", "jsonrpc", "id"}
StringKeys == {"text", "name"}

\* _walk: the values under method, jsonrpc and id are kept, strings are
\* redacted, objects are walked, everything else is returned as it is
RECURSIVE _walk(_, _)
_walk(obj, patterns) ==
    IF isinstance_dict(obj)
    THEN [k \in DOMAIN obj |->
             IF k \in STRUCTURAL_KEYS THEN obj[k]
             ELSE IF k \in StringKeys THEN _redact_string(obj[k], patterns)
             ELSE _walk(obj[k], patterns)]
    ELSE obj

\* a loop body that redacts the request as well as the response
scrub_interaction_requests(interaction, patterns) ==
    [interaction EXCEPT
         !.response = IF interaction.response # None
                      THEN _walk(interaction.response, patterns)
                      ELSE interaction.response,
         !.request = IF interaction.request # None
                     THEN _walk(interaction.request, patterns)
                     ELSE interaction.request]

\* the body of the loop over data["interactions"]: the response is walked
\* when there is one; the request is only searched, for the warning
scrub_interaction(interaction, patterns) ==
    [interaction EXCEPT
         !.response = IF interaction.response # None
                      THEN _walk(interaction.response, patterns)
                      ELSE interaction.response]

\* scrub_cassette
scrub_cassette(cassette, redact_server_url, redact_env, redact_patterns) ==
    LET has_value_patterns == redact_env # <<>> \/ redact_patterns # <<>>
        data == model_dump(cassette)
        url1 == IF redact_server_url
                THEN _redact_url_path(data.metadata.server_url)
                ELSE data.metadata.server_url
        patterns == _compile_patterns(redact_env, redact_patterns)
        redacting == has_value_patterns /\ patterns # <<>>
        url2 == IF redacting THEN redact_url(url1, patterns) ELSE url1
        ints == IF redacting
                THEN [p \in 1..Len(data.interactions) |->
                         scrub_interaction(data.interactions[p], patterns)]
                ELSE data.interactions
    IN  IF ~redact_server_url /\ ~has_value_patterns
        THEN cassette
        ELSE model_validate([data EXCEPT !.metadata.server_url = url2,
                                         !.interactions = ints])

(***************************************************************************)
(* Inputs of the scrub runs                                                *)
(***************************************************************************)
MaxScrubInter == 2
MaxScrubCalls == 2

CallRequest(id, name) ==
    [jsonrpc |-> "2.0", id |-> id, method |-> "tools/call", params |-> [name |-> name]]

ScrubInteractions ==
    {FullInteraction(CassetteInteraction(JSONRPC_REQUEST, CallRequest("r1", "add"),
                         ResultResponse("r1", "token sk-123"), TRUE, 200), 12),
     FullInteraction(CassetteInteraction(JSONRPC_REQUEST, CallRequest("r2", "sk-123"),
                         ResultResponse("r2", "added"), FALSE, 200), 7),
     FullInteraction(CassetteInteraction(JSONRPC_REQUEST, CallRequest("r3", "add"),
                         None, FALSE, 500), 0),
     FullInteraction(LifecycleInteraction("DELETE", "/mcp", FALSE, 200), 5)}

ScrubMetadatas ==
    {FullMetadata("t0", Url("http://localhost:8000", "/mcp"), "2025-03-26",
                  [name |-> "sk-123"]),
     FullMetadata("t1", Url("http://localhost:8000", "/sk-123"), JNull, None),
     FullMetadata("t2", Url("http://localhost:8000", "/"), JNull, None)}

RedactEnvs == {<<>>, <<"MY_SECRET">>, <<"MISSING_VAR", "EMPTY_VAR">>}
RedactPatterns == {<<>>, <<"add">>, <<"(">>}

\* requests sent to the replay of the cassette
ScrubBodies ==
    {CallRequest("i1", "add"), CallRequest("i2", "sk-123"),
     CallRequest("i3", _PLACEHOLDER)}

InitScrub ==
    /\ interactions \in UNION {[1..n -> ScrubInteractions] : n \in 0..MaxScrubInter}
    /\ metadata \in ScrubMetadatas
    /\ \E strategy \in Strategies : matcher = create_matcher(strategy, interactions)
    /\ session_id = "sidA"
    /\ last = NoRequest
    /\ calls = <<>>
    /\ ex = NoExchanges
    /\ clock = 0
    /\ added = 0
    /\ handlers = NoHandlers
    /\ twin = NoTwin
    /\ ToolsIdle

\* _save_cassette scrubs the cassette before writing it; the scrubbed
\* cassette is then the one a replay is created over
Scrub(redact_server_url, redact_env, redact_patterns) ==
    LET out == scrub_cassette(Cassette(version, metadata, interactions),
                              redact_server_url, redact_env, redact_patterns)
    IN  /\ scrubbed = Unused
        /\ scrubbed' = [redact_server_url |-> redact_server_url,
                        redact_env |-> redact_env,
                        redact_patterns |-> redact_patterns,
                        ret |-> out]
        /\ twin' = [interactions |-> out.interactions,
                    matcher |-> create_matcher(matcher.strategy, out.interactions),
                    ret |-> -1]
        /\ UNCHANGED <<interactions, metadata, matcher, session_id, last, calls, ex,
                       clock, added, handlers, version, file, loaded, forwarded,
                       verify, compared, server>>

\* the same request matched against the cassette and against the scrubbed one
MatchScrubbed(body) ==
    LET r == match(matcher, body)
        t == match(twin.matcher, body)
    IN  /\ scrubbed # Unused
        /\ Len(calls) < MaxScrubCalls
        /\ matcher' = r.matcher
        /\ calls' = Append(calls, [body |-> body, ret |-> r.ret])
        /\ twin' = [twin EXCEPT !.matcher = t.matcher, !.ret = t.ret]
        /\ UNCHANGED <<interactions, metadata, session_id, last, ex, clock, added,
                       handlers, tools>>

NextScrub ==
    \/ \E redact_server_url \in BOOLEAN, redact_env \in RedactEnvs,
          redact_patterns \in RedactPatterns :
           Scrub(redact_server_url, redact_env, redact_patterns)
    \/ \E body \in ScrubBodies : MatchScrubbed(body)

SpecScrub == InitScrub /\ [][NextScrub]_vars

MaxInFlight == 1    \* exchanges a recording that is shut down has had

Modes == {"record", "RecordSession"}

\* the server of a recording: how it was started, how far its shutdown is,
\* and whether the thread that saves is past uvicorn.run or UvicornServer.stop
Serving(mode) == [mode |-> mode, state |-> "serving", returned |-> FALSE]

InFlight == {e \in 1..NumExchanges : ex[e].pc \notin {"idle", "done"}}

InitShutdown ==
    /\ interactions = <<>>
    /\ metadata = CassetteMetadata
    /\ matcher = create_matcher("method_params", <<>>)
    /\ session_id = "sidA"
    /\ last = NoRequest
    /\ calls = <<>>
    /\ ex = NoExchanges
    /\ clock = 0
    /\ added = <<>>
    /\ handlers = NoHandlers
    /\ twin = NoTwin
    /\ version = CASSETTE_FORMAT_VERSION
    /\ file = Unused
    /\ loaded = Unused
    /\ forwarded = Unused
    /\ verify = Unused
    /\ compared = Unused
    /\ scrubbed = Unused
    /\ \E mode \in Modes : server = Serving(mode)

\* the server accepts a request
Accept(e, request) ==
    /\ server.state = "serving"
    /\ Receive(e, request)

\* the first Ctrl+C of the record command, or UvicornServer.stop:
\* should_exit = True
Stop ==
    /\ server.state = "serving"
    /\ server' = [server EXCEPT !.state = "should_exit"]
    /\ UNCHANGED <<interactions, metadata, matcher, session_id, last, calls, ex, clock,
                   added, handlers, twin, version, file, loaded, forwarded, verify,
                   compared, scrubbed>>

\* a second Ctrl+C while the record command waits for the requests in flight
ForceExit ==
    /\ server.mode = "record"
    /\ server.state = "should_exit"
    /\ server' = [server EXCEPT !.state = "force_exit"]
    /\ UNCHANGED <<interactions, metadata, matcher, session_id, last, calls, ex, clock,
                   added, handlers, twin, version, file, loaded, forwarded, verify,
                   compared, scrubbed>>

\* the loop is closed with a task waiting in client.request: the task is
\* cancelled there and records nothing.  (A task that is streaming is closed
\* through the finally block, as on a disconnect.)
Cancel(e) ==
    /\ server.state = "force_exit"
    /\ ex[e].pc = "forwarding"
    /\ ex' = [ex EXCEPT ![e] = [@ EXCEPT !.pc = "done", !.outcome = "cancelled",
                                          !.end = clock]]
    /\ clock' = clock + 1
    /\ UNCHANGED <<interactions, metadata, added>>
    /\ UNCHANGED <<matcher, session_id, last, calls, handlers, twin, tools>>

\* no request is in flight any more: Server.run returns
ServerExits ==
    /\ server.state \in {"should_exit", "force_exit"}
    /\ InFlight = {}
    /\ server' = [server EXCEPT !.state = "stopped"]
    /\ UNCHANGED <<interactions, metadata, matcher, session_id, last, calls, ex, clock,
                   added, handlers, twin, version, file, loaded, forwarded, verify,
                   compared, scrubbed>>

\* self._thread.join(timeout=5.0) returns: the thread has ended, or five
\* seconds have passed since should_exit was set
join(state) == state \in {"stopped", "should_exit"}

\* the thread that saves goes on: uvicorn.run has returned, or
\* UvicornServer.stop has
Returns ==
    /\ ~server.returned
    /\ IF server.mode = "record" THEN server.state = "stopped" ELSE join(server.state)
    /\ server' = [server EXCEPT !.returned = TRUE]
    /\ UNCHANGED <<interactions, metadata, matcher, session_id, last, calls, ex, clock,
                   added, handlers, twin, version, file, loaded, forwarded, verify,
                   compared, scrubbed>>

\* _save_cassette, and the end of RecordSession.__aexit__: the cassette is
\* written as it is at this moment, when it has an interaction
Save ==
    /\ server.returned
    /\ file = Unused
    /\ file' = [written |-> interactions # <<>>, interactions |-> interactions]
    /\ UNCHANGED <<interactions, metadata, matcher, session_id, last, calls, ex, clock,
                   added, handlers, twin, version, loaded, forwarded, verify, compared,
                   scrubbed, server>>

NextShutdown ==
    \/ \E e \in 1..MaxInFlight :
           \/ \E request \in SharedRequests : Accept(e, request)
           \/ UpstreamError(e)
           \/ \E content \in PlainContents : UpstreamPlain(e, content)
           \/ UpstreamSse(e)
           \/ \E line \in SharedLines : StreamLine(e, line, MaxSharedLines)
           \/ ResumeStream(e)
           \/ StreamEnd(e)
           \/ StreamOpenError(e)
           \/ StreamError(e)
           \/ Disconnect(e)
           \/ Cancel(e)
    \/ Stop
    \/ ForceExit
    \/ ServerExits
    \/ Returns
    \/ Save

SpecShutdown == InitShutdown /\ [][NextShutdown]_vars

====
